---- MODULE Spec2Model ----
(***************************************************************************)
(* A model of the protocol session layer of the Steam integration:         *)
(*   src/src/steam_network/protocol_client.py  (RSA / guard-type flow)     *)
(*   src/src/protocol/protocol_client.py       (legacy flow)               *)
(* Each coroutine is cut at its await points; each handler is one action.  *)
(***************************************************************************)
EXTENDS Integers, Sequences, FiniteSets, Bags, TLC

(***************************************************************************)
(* Bounds of the model.                                                    *)
(***************************************************************************)
\* futures created over a run (one per get_rsa_public_key / authenticate_* call)
MaxFutures == 2
\* server messages dispatched over a run
MaxMsgs == 2
\* the same two, for the runs that range over every result code
MaxCodeFutures == 1
MaxCodeMsgs == 1
\* longest allowed_confirmations list of a login reply
MaxConfirmations == 3
\* licenses per batch listed one by one (the bulk block comes on top)
MaxBatch == 2
\* license batches handled over a run
MaxBatches == 2
\* relationship messages handled over a run
MaxRelationships == 2
\* get_unlocked_achievements calls suspended at a time
MaxCalls == 2
\* the same, for the runs that fill the semaphore
MaxBurst == 21
\* longest job list of a client
MaxJobs == 3
\* longest list of game ids given to import_game_stats
MaxIds == 2
\* achievement blocks per stats reply
MaxBlocks == 2
\* games in the list of own games
MaxOwnGames == 2
\* ProtocolClient objects constructed over a run
MaxClients == 3

(***************************************************************************)
(* Values.                                                                 *)
(***************************************************************************)
None == "None"

Callers == {"c1", "c2"}

\* the auth_lost_handler callables a caller may pass
Handlers == {"h1", "h2"}

\* EResult codes named by translate_error, by the authenticate_* branches,
\* and two codes no branch names.
InvalidCredentialsCodes ==
    {"InvalidPassword", "AccountNotFound", "InvalidSteamID", "InvalidLoginAuthCode",
     "AccountLogonDeniedNoMailSent", "AccountLoginDeniedNeedTwoFactor",
     "TwoFactorCodeMismatch", "TwoFactorActivationCodeMismatch"}

NetworkErrorCodes == {"ConnectFailed", "IOFailure", "RemoteDisconnect"}

BackendNotAvailableCodes ==
    {"Busy", "ServiceUnavailable", "Pending", "IPNotFound", "TryAnotherCM", "Cancelled"}

TemporaryBlockedCodes ==
    {"RateLimitExceeded", "LimitExceeded", "Suspended", "AccountLocked",
     "AccountLogonDeniedVerifiedEmailRequired"}

AccessDeniedCodes ==
    {"AccessDenied", "InsufficientPrivilege", "LogonSessionReplaced", "Blocked",
     "Ignored", "AccountDisabled", "AccountNotFeatured"}

BackendErrorCodes ==
    {"DataCorruption", "DiskFull", "RemoteCallFailed", "RemoteFileConflict", "BadResponse"}

UnlistedCodes == {"Fail", "Expired"}

EResult ==
    {"OK", "AccountLogonDenied", "Timeout", "Banned"}
        \cup InvalidCredentialsCodes \cup NetworkErrorCodes
        \cup BackendNotAvailableCodes \cup TemporaryBlockedCodes
        \cup AccessDeniedCodes \cup BackendErrorCodes \cup UnlistedCodes

\* an exception object: its class and the data it carries
Error(kind, result) == [kind |-> kind, result |-> result]

\* translate_error as a table lookup that fails on a code the table lacks
translate_error_lookup(result) ==
    IF result = "OK" THEN Error("AssertionError", result)
    ELSE IF result \in InvalidCredentialsCodes THEN Error("InvalidCredentials", result)
    ELSE IF result \in NetworkErrorCodes THEN Error("NetworkError", result)
    ELSE IF result \in BackendNotAvailableCodes THEN Error("BackendNotAvailable", result)
    ELSE IF result = "Timeout" THEN Error("BackendTimeout", result)
    ELSE IF result \in TemporaryBlockedCodes THEN Error("TemporaryBlocked", result)
    ELSE IF result = "Banned" THEN Error("Banned", result)
    ELSE IF result \in AccessDeniedCodes THEN Error("AccessDenied", result)
    ELSE IF result \in BackendErrorCodes THEN Error("BackendError", result)
    ELSE Error("KeyError", result)

\* translate_error of the steam_network client
translate_error(result) ==
    IF result = "OK" THEN Error("AssertionError", result)
    ELSE IF result \in InvalidCredentialsCodes THEN Error("InvalidCredentials", result)
    ELSE IF result \in NetworkErrorCodes THEN Error("NetworkError", result)
    ELSE IF result \in BackendNotAvailableCodes THEN Error("BackendNotAvailable", result)
    ELSE IF result = "Timeout" THEN Error("BackendTimeout", result)
    ELSE IF result \in TemporaryBlockedCodes THEN Error("TemporaryBlocked", result)
    ELSE IF result = "Banned" THEN Error("Banned", result)
    ELSE IF result \in AccessDeniedCodes THEN Error("AccessDenied", result)
    ELSE IF result \in BackendErrorCodes THEN Error("BackendError", result)
    ELSE Error("UnknownError", result)

\* a translation that knows no error kind
legacy_translate_error_unknown(result) == Error("UnknownError", result)

\* translate_error of the legacy client
legacy_translate_error(result) ==
    IF result = "OK" THEN Error("AssertionError", result)
    ELSE IF result \in {"InvalidPassword", "AccountNotFound", "InvalidSteamID",
                        "InvalidLoginAuthCode", "AccountLogonDeniedNoMailSent",
                        "AccountLoginDeniedNeedTwoFactor", "TwoFactorCodeMismatch",
                        "TwoFactorActivationCodeMismatch"}
        THEN Error("InvalidCredentials", result)
    ELSE IF result \in {"ConnectFailed", "IOFailure", "RemoteDisconnect"}
        THEN Error("NetworkError", result)
    ELSE IF result \in {"Busy", "ServiceUnavailable", "Pending", "IPNotFound",
                        "TryAnotherCM", "Cancelled"}
        THEN Error("BackendNotAvailable", result)
    ELSE IF result = "Timeout" THEN Error("BackendTimeout", result)
    ELSE IF result \in {"RateLimitExceeded", "LimitExceeded", "Suspended",
                        "AccountLocked", "AccountLogonDeniedVerifiedEmailRequired"}
        THEN Error("TemporaryBlocked", result)
    ELSE IF result = "Banned" THEN Error("Banned", result)
    ELSE IF result \in {"AccessDenied", "InsufficientPrivilege", "LogonSessionReplaced",
                        "Blocked", "Ignored", "AccountDisabled", "AccountNotFeatured"}
        THEN Error("AccessDenied", result)
    ELSE IF result \in {"DataCorruption", "DiskFull", "RemoteCallFailed",
                        "RemoteFileConflict", "BadResponse"}
        THEN Error("BackendError", result)
    ELSE Error("UnknownError", result)

\* the members of UserActionRequired
UserActionRequired ==
    {"NoActionRequired", "EmailTwoFactorInputRequired", "PhoneTwoFactorInputRequired",
     "PhoneTwoFactorConfirmRequired", "PasswordRequired", "InvalidAuthData"}

\* guard types a login reply may list (EAuthSessionGuardType)
GuardTypes ==
    {"GuardType_None", "GuardType_EmailCode", "GuardType_DeviceCode",
     "GuardType_DeviceConfirmation", "GuardType_Unknown", "GuardType_EmailConfirmation",
     "GuardType_MachineToken", "GuardType_LegacyMachineAuth"}

to_UserAction(auth_enum) ==
    IF auth_enum = "GuardType_None" THEN "NoActionRequired"
    ELSE IF auth_enum = "GuardType_EmailCode" THEN "EmailTwoFactorInputRequired"
    ELSE IF auth_enum = "GuardType_DeviceCode" THEN "PhoneTwoFactorInputRequired"
    ELSE IF auth_enum = "GuardType_DeviceConfirmation" THEN "PhoneTwoFactorConfirmRequired"
    ELSE "InvalidAuthData"

\* the loop body with device confirmation not held back by an e-mail code
LoopStep_confirm_over_email(acc, allowed) ==
    LET action == to_UserAction(allowed) IN
    IF acc.stop THEN acc
    ELSE IF action = "PhoneTwoFactorInputRequired"
        THEN [auth_method |-> action, stop |-> TRUE]
    ELSE IF action = "EmailTwoFactorInputRequired"
        THEN [auth_method |-> action, stop |-> FALSE]
    ELSE IF action = "PhoneTwoFactorConfirmRequired"
        THEN [auth_method |-> action, stop |-> FALSE]
    ELSE IF action = "NoActionRequired" /\ acc.auth_method = "InvalidAuthData"
        THEN [auth_method |-> action, stop |-> FALSE]
    ELSE acc

\* one pass of the loop body of _login_handler over an allowed confirmation:
\* the method chosen so far and whether the loop has hit its break
LoopStep(acc, allowed) ==
    LET action == to_UserAction(allowed) IN
    IF acc.stop THEN acc
    ELSE IF action = "PhoneTwoFactorInputRequired"
        THEN [auth_method |-> action, stop |-> TRUE]
    ELSE IF action = "EmailTwoFactorInputRequired"
        THEN [auth_method |-> action, stop |-> FALSE]
    ELSE IF action = "PhoneTwoFactorConfirmRequired"
              /\ acc.auth_method # "EmailTwoFactorInputRequired"
        THEN [auth_method |-> action, stop |-> FALSE]
    ELSE IF action = "NoActionRequired" /\ acc.auth_method = "InvalidAuthData"
        THEN [auth_method |-> action, stop |-> FALSE]
    ELSE acc

RECURSIVE LoopFrom(_, _, _)
LoopFrom(acc, confirmations, i) ==
    IF i > Len(confirmations) THEN acc
    ELSE LoopFrom(LoopStep(acc, confirmations[i]), confirmations, i + 1)

\* the auth_method _login_handler resolves from message.allowed_confirmations
ResolveAuthMethod(confirmations) ==
    LoopFrom([auth_method |-> "InvalidAuthData", stop |-> FALSE], confirmations, 1).auth_method


(***************************************************************************)
(* State.                                                                  *)
(***************************************************************************)
VARIABLES
    auth_lost_handler,   \* ProtocolClient._auth_lost_handler (None or a callable)
    rsa_future,          \* ProtocolClient._rsa_future: 0 (None) or an index of futures
    login_future,        \* ProtocolClient._login_future: 0 (None) or an index of futures
    futures,             \* every future created so far: [done, result, data]
    steam_id,            \* UserInfoCache.steam_id
    callers,             \* the coroutines running the client's public operations
    closed,              \* close() has been called
    nmsgs,               \* server messages dispatched so far
    handled,             \* the message the last handler run was given: [kind, result]
    handler_exc,         \* the exception the last handler run raised, or None
    lost_log,            \* the calls made to auth-lost callbacks: <<[handler, error]>>
    authenticated,       \* an authenticate_* call has run to its end on result OK
    inbox,               \* a login reply on its way to _login_handler, or None
    account_info_retrieved,  \* ProtobufClient.account_info_retrieved (legacy)
    login_key_retrieved,     \* ProtobufClient.login_key_retrieved (legacy)
    package_ids,         \* GamesCache: the package ids of the storing map
    resolved,            \* GamesCache: the package ids with at least one app
    importing,           \* GamesCache: the licenses handed to start_packages_import last
    requested,           \* the licenses of the last get_packages_info request
    reset_count,         \* calls of GamesCache.reset_storing_map so far
    batch,               \* the license batch the last handler run was given, or None
    nbatches,            \* license batches handled so far
    license_run,         \* what the last handler run read: the resolved packages, the
                         \* cached package ids and the branch taken
    friends_cache,       \* FriendsCache: the user ids it holds
    declared,            \* the relationship the server declared last for each user
    relationship_run,    \* the last relationship message and how its handler run ended
    nrelationships,      \* relationship messages handled so far
    achievements_cache,  \* SteamPlugin._achievements_cache: per game, the entry stored
    achievements_cache_updated,  \* SteamPlugin._achievements_cache_updated
    achievements_semaphore,      \* the value of SteamPlugin._achievements_semaphore
    calls,               \* the get_unlocked_achievements calls that are suspended, a bag
    returned,            \* the get_unlocked_achievements call that finished last, or None
    last_write,          \* per game, the arguments of the last Cache.update
    job_list,            \* ProtobufClient.job_list of each client, a list of jobs
    job_run,             \* the last job submission: its client, arguments and the list before
    stats_reply,         \* a stats reply on its way to _stats_handler, or None
    update_stats_calls,  \* the calls of StatsCache.update_stats so far
    stats_run,           \* the last stats reply handled and how its handler run ended
    own_games,           \* SteamPlugin._own_games: the game dicts of the backend
    local_config,        \* what load_vdf gives for the account's localconfig.vdf
    game_times_run,      \* how the last _get_game_times_dict call ended, or None
    persistent_cache,    \* Plugin.persistent_cache.get("achievements")
    handshake_run,       \* how the handshake_complete call ended, or None
    machine_cache,       \* LocalMachineCache.machine_id of each local machine cache
    clients,             \* the ProtocolClient objects constructed: [cache, machine_id]
    generated,           \* per cache, the calls of _generate_machine_id made for it
    plugin_steam_id,     \* SteamPlugin._steam_id
    own_friends,         \* SteamPlugin._own_friends: [user_id, shared] per friend
    auth_op,             \* the _do_auth coroutine: where it is suspended
    plugin_op,           \* the plugin operation under way: where it is suspended
    auth_run,            \* how the last _do_auth call ended, or None
    plugin_run,          \* how the last plugin operation ended, or None
    translations_cache,  \* per client, ProtocolClient._translations_cache
    presence_requests,   \* per client, the app ids of the get_presence_localization calls
    translation_msgs,    \* the translation messages handled so far
    translations_run,    \* the last translation message handled and the state before it
    collections,         \* per client, ProtobufClient.collections: [event, collections]
    waiters,             \* per client, the retrieve_collections calls inside event.wait()
    collection_sets,     \* per client, how often the collections event was set
    last_return,         \* per client, collection_sets at the last return of a call
    retrievals,          \* the retrieve_collections calls made so far
    collection_runs,     \* the retrieve_collections calls that returned, in order
    translate_run        \* per client, the last translate_error call: [result, error]

authVars == <<auth_lost_handler, rsa_future, login_future, futures, steam_id, callers,
              closed, nmsgs, handled, handler_exc, lost_log, authenticated>>
legacyVars == <<account_info_retrieved, login_key_retrieved>>
licenseVars == <<package_ids, resolved, importing, requested, reset_count, batch, nbatches,
                 license_run>>
friendsVars == <<friends_cache, declared, relationship_run, nrelationships>>
pluginVars == <<achievements_cache, achievements_cache_updated, achievements_semaphore, calls,
                returned, last_write>>
jobVars == <<job_list, job_run>>
statsVars == <<stats_reply, update_stats_calls, stats_run>>
timesVars == <<own_games, local_config, game_times_run>>
startupVars == <<persistent_cache, handshake_run>>
machineVars == <<machine_cache, clients, generated>>
gateVars == <<plugin_steam_id, own_friends, auth_op, plugin_op, auth_run, plugin_run>>
translationVars ==
    <<translations_cache, presence_requests, translation_msgs, translations_run>>
collectionVars ==
    <<collections, waiters, collection_sets, last_return, retrievals, collection_runs>>
facadeVars == <<gateVars, translationVars, collectionVars, translate_run>>
sessionVars == <<jobVars, statsVars, timesVars, startupVars, machineVars, facadeVars>>
vars == <<authVars, inbox, legacyVars, licenseVars, friendsVars, pluginVars, sessionVars>>

\* Python's None where an object is expected
NoneValue == [type |-> "NoneType"]

\* a member of UserActionRequired as a returned value
Action(name) == [type |-> "UserActionRequired", name |-> name]

NoMsg == [kind |-> None, result |-> None]

NoExc == [kind |-> None, result |-> None]

NoReturn == [tag |-> None, value |-> NoneValue]

IdleCaller ==
    [pc |-> "idle", op |-> None, handler |-> None, own |-> 0, fut |-> 0,
     result |-> None, data |-> NoneValue, ret |-> NoReturn, nsent |-> 0]

Return(value) == [tag |-> "return", value |-> value]

Raise(error) == [tag |-> "raise", value |-> error]

\* loop.create_future(), with the exchange it was created for
NewFuture(kind) == [kind |-> kind, done |-> FALSE, result |-> None, data |-> NoneValue]

\* Future.set_result((result, data)) on a future that is not done
SetResult(f, result, data) ==
    [futures EXCEPT ![f] = [@ EXCEPT !.done = TRUE, !.result = result, !.data = data]]

\* ProtocolClient.__init__ of either client, with a user-info cache that may
\* already hold a steam id
ClientInit ==
    /\ auth_lost_handler = None
    /\ rsa_future = 0
    /\ login_future = 0
    /\ futures = <<>>
    /\ callers = [c \in Callers |-> IdleCaller]
    /\ closed = FALSE
    /\ nmsgs = 0
    /\ handled = NoMsg
    /\ handler_exc = NoExc
    /\ lost_log = <<>>
    /\ authenticated = FALSE

LegacyIdle ==
    /\ account_info_retrieved = FALSE
    /\ login_key_retrieved = FALSE

LicenseIdle ==
    /\ package_ids = [small |-> {}, bulk |-> 0]
    /\ resolved = {}
    /\ importing = NoneValue
    /\ requested = NoneValue
    /\ reset_count = 0
    /\ batch = NoneValue
    /\ nbatches = 0
    /\ license_run = NoneValue

\* the users relationship messages are about
Users == {"u1", "u2"}

\* the games achievements are asked for
Games == {"g1", "g2"}

\* the concurrency of achievement requests: asyncio.Semaphore(20)
AchievementsConcurrency == 20

FriendsIdle ==
    /\ friends_cache = {}
    /\ declared = [u \in Users |-> "undeclared"]
    /\ relationship_run = NoneValue
    /\ nrelationships = 0

PluginIdle ==
    /\ achievements_cache = [g \in Games |-> NoneValue]
    /\ achievements_cache_updated = FALSE
    /\ achievements_semaphore = AchievementsConcurrency
    /\ calls = EmptyBag
    /\ returned = NoneValue
    /\ last_write = [g \in Games |-> NoneValue]

\* the two protocol clients, each with a ProtobufClient of its own
Clients == {"steam_network", "protocol"}

JobsIdle ==
    /\ job_list = [client \in Clients |-> <<>>]
    /\ job_run = NoneValue

StatsIdle ==
    /\ stats_reply = NoneValue
    /\ update_stats_calls = <<>>
    /\ stats_run = NoneValue

\* no own game yet (plugin.py line 80), a local file without the Apps path
TimesIdle ==
    /\ own_games = <<>>
    /\ local_config = NoneValue
    /\ game_times_run = NoneValue

\* nothing persisted, no handshake yet
StartupIdle ==
    /\ persistent_cache = NoneValue
    /\ handshake_run = NoneValue

\* the local machine caches
MachineCaches == {"m1", "m2"}

\* empty caches, no client constructed
MachineIdle ==
    /\ machine_cache = [m \in MachineCaches |-> NoneValue]
    /\ clients = <<>>
    /\ generated = [m \in MachineCaches |-> 0]

\* not authenticated, no operation under way
GateIdle ==
    /\ plugin_steam_id = None
    /\ own_friends = <<>>
    /\ auth_op = NoneValue
    /\ plugin_op = NoneValue
    /\ auth_run = NoneValue
    /\ plugin_run = NoneValue

TranslationsIdle ==
    /\ translations_cache = [client \in Clients |-> <<>>]
    /\ presence_requests = [client \in Clients |-> <<>>]
    /\ translation_msgs = 0
    /\ translations_run = NoneValue

\* ProtobufClient starts with the event cleared and an empty dict
CollectionsIdle ==
    /\ collections = [client \in Clients |-> [event |-> FALSE, collections |-> {}]]
    /\ waiters = [client \in Clients |-> <<>>]
    /\ collection_sets = [client \in Clients |-> 0]
    /\ last_return = [client \in Clients |-> 0]
    /\ retrievals = 0
    /\ collection_runs = <<>>

FacadeIdle ==
    /\ GateIdle
    /\ TranslationsIdle
    /\ CollectionsIdle
    /\ translate_run = [client \in Clients |-> NoneValue]

SessionIdle ==
    /\ JobsIdle
    /\ StatsIdle
    /\ TimesIdle
    /\ StartupIdle
    /\ MachineIdle
    /\ FacadeIdle

(***************************************************************************)
(* steam_network client: the key exchange.                                 *)
(***************************************************************************)
\* (modulus, exponent, timestamp) of the key replies
KeyParams == {33, 55} \X {3, 5} \X {1, 2}

\* SteamPublicKey(PublicKey(mod, exp), timestamp)
SteamPublicKey(mod, exp, timestamp) ==
    [type |-> "SteamPublicKey", n |-> mod, e |-> exp, timestamp |-> timestamp]

\* get_rsa_public_key keeping a pending future in the slot
get_rsa_public_key_call_keep_pending(c, h) ==
    /\ ~closed
    /\ callers[c].pc = "idle"
    /\ futures' = Append(futures, NewFuture("rsa"))
    /\ rsa_future' = IF rsa_future # 0 /\ ~futures[rsa_future].done
                        THEN rsa_future ELSE Len(futures) + 1
    /\ callers' = [callers EXCEPT ![c] =
                     [IdleCaller EXCEPT !.pc = "sending", !.op = "get_rsa_public_key",
                                        !.handler = h, !.own = Len(futures) + 1]]
    /\ UNCHANGED <<auth_lost_handler, login_future, steam_id, closed, nmsgs, handled,
                   handler_exc, lost_log, authenticated>>

\* get_rsa_public_key up to its first await: the future replaces the slot's
get_rsa_public_key_call(c, h) ==
    /\ ~closed
    /\ callers[c].pc = "idle"
    /\ futures' = Append(futures, NewFuture("rsa"))
    /\ rsa_future' = Len(futures) + 1
    /\ callers' = [callers EXCEPT ![c] =
                     [IdleCaller EXCEPT !.pc = "sending", !.op = "get_rsa_public_key",
                                        !.handler = h, !.own = Len(futures) + 1]]
    /\ UNCHANGED <<auth_lost_handler, login_future, steam_id, closed, nmsgs, handled,
                   handler_exc, lost_log, authenticated>>

\* the send has returned: the coroutine reads self._rsa_future and awaits it
get_rsa_public_key_sent(c) ==
    /\ ~closed
    /\ callers[c].pc = "sending"
    /\ callers[c].op = "get_rsa_public_key"
    /\ callers' = [callers EXCEPT ![c].pc = "waiting", ![c].fut = rsa_future,
                                  ![c].nsent = @ + 1]
    /\ UNCHANGED <<auth_lost_handler, rsa_future, login_future, futures, steam_id,
                   closed, nmsgs, handled, handler_exc, lost_log, authenticated>>

\* get_rsa_public_key with its last branch live: a non-OK key reply raises
get_rsa_public_key_branch_raising(result, key) ==
    IF result = "OK"
        THEN [ret |-> Return([type |-> "tuple", action |-> "PasswordRequired", key |-> key]),
              registers |-> TRUE]
        ELSE [ret |-> Raise(translate_error(result)), registers |-> FALSE]

\* the branches of get_rsa_public_key on (result, key): what it returns and
\* whether it registers auth_lost_handler
get_rsa_public_key_branch(result, key) ==
    IF result = "OK"
        THEN [ret |-> Return([type |-> "tuple", action |-> "PasswordRequired", key |-> key]),
              registers |-> TRUE]
        ELSE [ret |-> Return([type |-> "tuple", action |-> "InvalidAuthData", key |-> key]),
              registers |-> FALSE]

\* the awaited future is done: the coroutine runs to its end
get_rsa_public_key_resume(c) ==
    /\ callers[c].pc = "waiting"
    /\ callers[c].op = "get_rsa_public_key"
    /\ futures[callers[c].fut].done
    /\ LET f == futures[callers[c].fut]
           b == get_rsa_public_key_branch(f.result, f.data)
       IN /\ callers' = [callers EXCEPT ![c].pc = "done", ![c].result = f.result,
                                        ![c].data = f.data, ![c].ret = b.ret]
          /\ auth_lost_handler' =
                IF b.registers THEN callers[c].handler ELSE auth_lost_handler
    /\ UNCHANGED <<rsa_future, login_future, futures, steam_id, closed, nmsgs, handled,
                   handler_exc, lost_log, authenticated>>

\* the key _rsa_handler builds
rsa_handler_key(result, mod, exp, timestamp) ==
    IF result = "OK" THEN SteamPublicKey(mod, exp, timestamp) ELSE NoneValue

\* _rsa_handler
rsa_handler(result, mod, exp, timestamp) ==
    /\ handled' = [kind |-> "rsa", result |-> result, mod |-> mod, exp |-> exp,
                   timestamp |-> timestamp]
    /\ IF rsa_future # 0
         THEN IF futures[rsa_future].done
                THEN /\ handler_exc' = Error("InvalidStateError", result)
                     /\ UNCHANGED futures
                ELSE /\ futures' = SetResult(rsa_future, result,
                                             rsa_handler_key(result, mod, exp, timestamp))
                     /\ handler_exc' = NoExc
         ELSE /\ handler_exc' = NoExc
              /\ UNCHANGED futures
    /\ UNCHANGED <<auth_lost_handler, rsa_future, login_future, steam_id, callers,
                   closed, lost_log, authenticated>>

\* the dispatcher routes a key reply
RsaReplyArrives(results, keys) ==
    /\ ~closed
    /\ nmsgs' = nmsgs + 1
    /\ \E result \in results, k \in keys : rsa_handler(result, k[1], k[2], k[3])


(***************************************************************************)
(* steam_network client: the login exchange.                               *)
(***************************************************************************)
SteamIds == {"s1", "s2"}

\* SteamPollingData(client_id, steamid, request_id, interval, auth_method, message)
SteamPollingData(client_id, steamid, request_id, interval, auth_method, message) ==
    [type |-> "SteamPollingData", client_id |-> client_id, steamid |-> steamid,
     request_id |-> request_id, interval |-> interval, auth_method |-> auth_method,
     extended_error_message |-> message]

\* every list of at most n guard types
ConfirmationLists(n) == UNION {[1..k -> GuardTypes] : k \in 0..n}

\* a CAuthentication_BeginAuthSessionViaCredentials_Response with its result code
LoginReply(result, client_id, steamid, request_id, interval, confirmations, message) ==
    [result |-> result, client_id |-> client_id, steamid |-> steamid,
     request_id |-> request_id, interval |-> interval,
     allowed_confirmations |-> confirmations, extended_error_message |-> message]

\* login replies with the given result codes; an OK reply carries one of the
\* given steam ids and lists of allowed confirmations
LoginReplies(results, steamids, lists) ==
    {LoginReply("OK", "cl1", s, "rq1", 5, l, "") : s \in steamids, l \in lists}
    \cup {LoginReply(r, "cl1", "s1", "rq1", 5, <<>>, "denied") : r \in results \ {"OK"}}

\* authenticate_password up to its first await: the future replaces the slot's
authenticate_password_call(c, h) ==
    /\ ~closed
    /\ callers[c].pc = "idle"
    /\ futures' = Append(futures, NewFuture("login"))
    /\ login_future' = Len(futures) + 1
    /\ callers' = [callers EXCEPT ![c] =
                     [IdleCaller EXCEPT !.pc = "sending", !.op = "authenticate_password",
                                        !.handler = h, !.own = Len(futures) + 1]]
    /\ UNCHANGED <<auth_lost_handler, rsa_future, steam_id, closed, nmsgs, handled,
                   handler_exc, lost_log, authenticated>>

\* log_on_password has returned: the coroutine reads self._login_future and awaits it
authenticate_password_sent(c) ==
    /\ ~closed
    /\ callers[c].pc = "sending"
    /\ callers[c].op = "authenticate_password"
    /\ callers' = [callers EXCEPT ![c].pc = "waiting", ![c].fut = login_future,
                                  ![c].nsent = @ + 1]
    /\ UNCHANGED <<auth_lost_handler, rsa_future, login_future, futures, steam_id,
                   closed, nmsgs, handled, handler_exc, lost_log, authenticated>>

\* authenticate_password without its AccountLoginDeniedNeedTwoFactor branch
authenticate_password_branch_no_2fa(result, data) ==
    IF result = "OK"
        THEN [ret |-> Return(data), registers |-> TRUE]
    ELSE IF result = "AccountLogonDenied"
        THEN [ret |-> Return(Action("EmailTwoFactorInputRequired")), registers |-> TRUE]
    ELSE IF result \in {"InvalidPassword", "InvalidSteamID", "AccountNotFound",
                        "InvalidLoginAuthCode", "TwoFactorCodeMismatch",
                        "TwoFactorActivationCodeMismatch"}
        THEN [ret |-> Return(Action("InvalidAuthData")), registers |-> TRUE]
    ELSE [ret |-> Raise(translate_error(result)), registers |-> FALSE]

\* the branches of authenticate_password on (result, data)
authenticate_password_branch(result, data) ==
    IF result = "OK"
        THEN [ret |-> Return(data), registers |-> TRUE]
    ELSE IF result = "AccountLogonDenied"
        THEN [ret |-> Return(Action("EmailTwoFactorInputRequired")), registers |-> TRUE]
    ELSE IF result = "AccountLoginDeniedNeedTwoFactor"
        THEN [ret |-> Return(Action("PhoneTwoFactorInputRequired")), registers |-> TRUE]
    ELSE IF result \in {"InvalidPassword", "InvalidSteamID", "AccountNotFound",
                        "InvalidLoginAuthCode", "TwoFactorCodeMismatch",
                        "TwoFactorActivationCodeMismatch"}
        THEN [ret |-> Return(Action("InvalidAuthData")), registers |-> TRUE]
    ELSE [ret |-> Raise(translate_error(result)), registers |-> FALSE]

\* authenticate_password sending its log-on request again after a hard failure
authenticate_password_resume_retrying(c) ==
    /\ callers[c].pc = "waiting"
    /\ callers[c].op = "authenticate_password"
    /\ futures[callers[c].fut].done
    /\ LET f == futures[callers[c].fut]
           b == authenticate_password_branch(f.result, f.data)
       IN IF b.ret.tag = "raise"
            THEN /\ futures' = Append(futures, NewFuture("login"))
                 /\ login_future' = Len(futures) + 1
                 /\ callers' = [callers EXCEPT ![c].pc = "sending",
                                               ![c].own = Len(futures) + 1]
                 /\ UNCHANGED <<auth_lost_handler, authenticated>>
            ELSE /\ callers' = [callers EXCEPT ![c].pc = "done", ![c].result = f.result,
                                               ![c].data = f.data, ![c].ret = b.ret]
                 /\ auth_lost_handler' =
                       IF b.registers THEN callers[c].handler ELSE auth_lost_handler
                 /\ authenticated' = (authenticated \/ f.result = "OK")
                 /\ UNCHANGED <<login_future, futures>>
    /\ UNCHANGED <<rsa_future, steam_id, closed, nmsgs, handled, handler_exc, lost_log>>

\* the awaited future is done: the coroutine runs to its end
authenticate_password_resume(c) ==
    /\ callers[c].pc = "waiting"
    /\ callers[c].op = "authenticate_password"
    /\ futures[callers[c].fut].done
    /\ LET f == futures[callers[c].fut]
           b == authenticate_password_branch(f.result, f.data)
       IN /\ callers' = [callers EXCEPT ![c].pc = "done", ![c].result = f.result,
                                        ![c].data = f.data, ![c].ret = b.ret]
          /\ auth_lost_handler' =
                IF b.registers THEN callers[c].handler ELSE auth_lost_handler
          /\ authenticated' = (authenticated \/ f.result = "OK")
    /\ UNCHANGED <<rsa_future, login_future, futures, steam_id, closed, nmsgs, handled,
                   handler_exc, lost_log>>

\* a polling descriptor built whatever the result code
login_handler_data_any_result(message) ==
    SteamPollingData(message.client_id, message.steamid, message.request_id,
                     message.interval, ResolveAuthMethod(message.allowed_confirmations),
                     message.extended_error_message)

\* the data _login_handler builds for the future
login_handler_data(message) ==
    IF message.result = "OK"
        THEN SteamPollingData(message.client_id, message.steamid, message.request_id,
                              message.interval,
                              ResolveAuthMethod(message.allowed_confirmations),
                              message.extended_error_message)
        ELSE NoneValue

\* _login_handler
login_handler(message) ==
    /\ handled' = [kind |-> "login", result |-> message.result]
    /\ steam_id' = IF message.result = "OK" THEN message.steamid ELSE steam_id
    /\ IF login_future # 0
         THEN IF futures[login_future].done
                THEN /\ handler_exc' = Error("InvalidStateError", message.result)
                     /\ UNCHANGED futures
                ELSE /\ futures' = SetResult(login_future, message.result,
                                             login_handler_data(message))
                     /\ handler_exc' = NoExc
         ELSE /\ handler_exc' = translate_error(message.result)
              /\ UNCHANGED futures
    /\ UNCHANGED <<auth_lost_handler, rsa_future, login_future, callers, closed,
                   lost_log, authenticated>>

\* the dispatcher routes a login reply
LoginReplyArrives(replies) ==
    /\ ~closed
    /\ nmsgs' = nmsgs + 1
    /\ \E message \in replies : login_handler(message)

\* _log_off_handler
log_off_handler(result) ==
    /\ handled' = [kind |-> "log_off", result |-> result]
    /\ IF auth_lost_handler # None
         THEN IF translate_error(result).kind = "AssertionError"
                THEN /\ handler_exc' = translate_error(result)
                     /\ UNCHANGED lost_log
                ELSE /\ lost_log' = Append(lost_log, [handler |-> auth_lost_handler,
                                                      error |-> translate_error(result)])
                     /\ handler_exc' = NoExc
         ELSE /\ handler_exc' = NoExc
              /\ UNCHANGED lost_log
    /\ UNCHANGED <<auth_lost_handler, rsa_future, login_future, futures, steam_id,
                   callers, closed, authenticated>>

\* the dispatcher routes a log-off notification
LogOffArrives(results) ==
    /\ ~closed
    /\ nmsgs' = nmsgs + 1
    /\ \E result \in results : log_off_handler(result)

\* close(): the transport is closed; no future of the client is touched
close ==
    /\ ~closed
    /\ closed' = TRUE
    /\ UNCHANGED <<auth_lost_handler, rsa_future, login_future, futures, steam_id,
                   callers, nmsgs, handled, handler_exc, lost_log, authenticated>>

\* the caller of a finished operation takes its outcome
finish(c) ==
    /\ callers[c].pc = "done"
    /\ callers' = [callers EXCEPT ![c] = IdleCaller]
    /\ UNCHANGED <<auth_lost_handler, rsa_future, login_future, futures, steam_id,
                   closed, nmsgs, handled, handler_exc, lost_log, authenticated>>

(***************************************************************************)
(* The session of the steam_network client.                                *)
(***************************************************************************)
AuthInit ==
    /\ ClientInit
    /\ steam_id = None
    /\ inbox = NoneValue
    /\ LegacyIdle
    /\ LicenseIdle
    /\ FriendsIdle
    /\ PluginIdle
    /\ SessionIdle

\* one result code of every branch of the client's operations
SessionResults == {"OK", "AccountLogonDenied", "InvalidPassword", "TryAnotherCM"}

SessionKeys == {<<33, 3, 1>>}

SessionLoginReplies ==
    LoginReplies(SessionResults, {"s1"}, {<<>>, <<"GuardType_EmailCode">>})

\* each concurrent caller passes a callback of its own
SessionHandlers == [c \in Callers |-> IF c = "c1" THEN {"h1"} ELSE {"h2"}]

\* a step of the client: an operation of one of the callers cs advances (hs[c]
\* are the callbacks c may pass), or the dispatcher routes a message
AuthStep(cs, hs, rs, keys, logins, maxFutures, maxMsgs) ==
    \/ /\ Len(futures) < maxFutures
       /\ \E c \in cs : \E h \in hs[c] : get_rsa_public_key_call(c, h)
    \/ \E c \in cs : get_rsa_public_key_sent(c)
    \/ \E c \in cs : get_rsa_public_key_resume(c)
    \/ /\ Len(futures) < maxFutures
       /\ \E c \in cs : \E h \in hs[c] : authenticate_password_call(c, h)
    \/ \E c \in cs : authenticate_password_sent(c)
    \/ \E c \in cs : authenticate_password_resume(c)
    \/ \E c \in cs : finish(c)
    \/ nmsgs < maxMsgs /\ RsaReplyArrives(rs, keys)
    \/ nmsgs < maxMsgs /\ LoginReplyArrives(logins)
    \/ nmsgs < maxMsgs /\ LogOffArrives(rs)
    \/ close

\* a session with concurrent callers
AuthNext ==
    /\ AuthStep(Callers, SessionHandlers, SessionResults, SessionKeys,
                SessionLoginReplies, MaxFutures, MaxMsgs)
    /\ UNCHANGED <<inbox, legacyVars, licenseVars, friendsVars, pluginVars, sessionVars>>

SpecAuth == AuthInit /\ [][AuthNext]_vars

\* the event loop runs every coroutine that can run, and every frame the
\* transport holds is routed
SpecAuthFair == SpecAuth /\ WF_vars(AuthNext) /\ \A c \in Callers :
    /\ WF_vars(get_rsa_public_key_resume(c) /\ UNCHANGED <<inbox, legacyVars, licenseVars, friendsVars, pluginVars, sessionVars>>)
    /\ WF_vars(authenticate_password_resume(c) /\ UNCHANGED <<inbox, legacyVars, licenseVars, friendsVars, pluginVars, sessionVars>>)

\* one caller, every result code
CodesNext ==
    /\ AuthStep({"c1"}, [c \in {"c1"} |-> Handlers], EResult, KeyParams,
                LoginReplies(EResult, SteamIds, ConfirmationLists(1)),
                MaxCodeFutures, MaxCodeMsgs)
    /\ UNCHANGED <<inbox, legacyVars, licenseVars, friendsVars, pluginVars, sessionVars>>

SpecCodes == AuthInit /\ [][CodesNext]_vars


(***************************************************************************)
(* One login reply, drawn from every result code and every list of allowed *)
(* confirmations, routed at any point of one authenticate_password call.   *)
(***************************************************************************)
GuardInit ==
    /\ ClientInit
    /\ steam_id \in {None} \cup SteamIds
    /\ inbox \in LoginReplies(EResult, SteamIds, ConfirmationLists(MaxConfirmations))
    /\ LegacyIdle
    /\ LicenseIdle
    /\ FriendsIdle
    /\ PluginIdle
    /\ SessionIdle

\* the dispatcher routes the reply
InboxDelivered ==
    /\ ~closed
    /\ handled = NoMsg
    /\ nmsgs' = nmsgs + 1
    /\ login_handler(inbox)

GuardNext ==
    /\ \/ Len(futures) < MaxCodeFutures /\ \E h \in Handlers : authenticate_password_call("c1", h)
       \/ authenticate_password_sent("c1")
       \/ authenticate_password_resume("c1")
       \/ finish("c1")
       \/ InboxDelivered
    /\ UNCHANGED <<inbox, legacyVars, licenseVars, friendsVars, pluginVars, sessionVars>>

SpecGuard == GuardInit /\ [][GuardNext]_vars

(***************************************************************************)
(* The legacy client: log-on by password or by stored token.               *)
(***************************************************************************)
\* authenticate_token up to its first await: the future replaces the slot's
legacy_authenticate_token_call(c, h) ==
    /\ ~closed
    /\ callers[c].pc = "idle"
    /\ futures' = Append(futures, NewFuture("login"))
    /\ login_future' = Len(futures) + 1
    /\ callers' = [callers EXCEPT ![c] =
                     [IdleCaller EXCEPT !.pc = "sending", !.op = "authenticate_token",
                                        !.handler = h, !.own = Len(futures) + 1]]
    /\ UNCHANGED <<auth_lost_handler, rsa_future, steam_id, closed, nmsgs, handled,
                   handler_exc, lost_log, authenticated>>

\* the legacy authenticate_password up to its first await
legacy_authenticate_password_call(c, h) ==
    /\ ~closed
    /\ callers[c].pc = "idle"
    /\ futures' = Append(futures, NewFuture("login"))
    /\ login_future' = Len(futures) + 1
    /\ callers' = [callers EXCEPT ![c] =
                     [IdleCaller EXCEPT !.pc = "sending", !.op = "legacy_authenticate_password",
                                        !.handler = h, !.own = Len(futures) + 1]]
    /\ UNCHANGED <<auth_lost_handler, rsa_future, steam_id, closed, nmsgs, handled,
                   handler_exc, lost_log, authenticated>>

\* log_on_token or log_on_password has returned: the coroutine reads
\* self._login_future and awaits it
legacy_log_on_sent(c) ==
    /\ ~closed
    /\ callers[c].pc = "sending"
    /\ callers[c].op \in {"authenticate_token", "legacy_authenticate_password"}
    /\ callers' = [callers EXCEPT ![c].pc = "waiting", ![c].fut = login_future,
                                  ![c].nsent = @ + 1]
    /\ UNCHANGED <<auth_lost_handler, rsa_future, login_future, futures, steam_id,
                   closed, nmsgs, handled, handler_exc, lost_log, authenticated>>

\* authenticate_token with the result branches of authenticate_password
legacy_authenticate_token_branch_as_password(result) ==
    IF result = "OK"
        THEN [ret |-> NoReturn, registers |-> TRUE]
    ELSE IF result = "AccountLogonDenied"
        THEN [ret |-> Return(Action("EmailTwoFactorInputRequired")), registers |-> TRUE]
    ELSE IF result = "AccountLoginDeniedNeedTwoFactor"
        THEN [ret |-> Return(Action("PhoneTwoFactorInputRequired")), registers |-> TRUE]
    ELSE IF result \in {"InvalidPassword", "InvalidSteamID", "AccountNotFound",
                        "InvalidLoginAuthCode", "TwoFactorCodeMismatch",
                        "TwoFactorActivationCodeMismatch"}
        THEN [ret |-> Return(Action("InvalidAuthData")), registers |-> TRUE]
    ELSE [ret |-> Raise(legacy_translate_error(result)), registers |-> FALSE]

\* the branches of authenticate_token on result; on OK it goes on to wait
legacy_authenticate_token_branch(result) ==
    IF result = "OK"
        THEN [ret |-> NoReturn, registers |-> TRUE]
    ELSE IF result = "InvalidPassword"
        THEN [ret |-> Raise(Error("InvalidCredentials", result)), registers |-> FALSE]
    ELSE [ret |-> Raise(legacy_translate_error(result)), registers |-> FALSE]

\* the branches of the legacy authenticate_password on result
legacy_authenticate_password_branch(result) ==
    IF result = "OK"
        THEN [ret |-> NoReturn, registers |-> TRUE]
    ELSE IF result = "AccountLogonDenied"
        THEN [ret |-> Return(Action("EmailTwoFactorInputRequired")), registers |-> TRUE]
    ELSE IF result = "AccountLoginDeniedNeedTwoFactor"
        THEN [ret |-> Return(Action("PhoneTwoFactorInputRequired")), registers |-> TRUE]
    ELSE IF result \in {"InvalidPassword", "InvalidSteamID", "AccountNotFound",
                        "InvalidLoginAuthCode", "TwoFactorCodeMismatch",
                        "TwoFactorActivationCodeMismatch"}
        THEN [ret |-> Return(Action("InvalidAuthData")), registers |-> TRUE]
    ELSE [ret |-> Raise(legacy_translate_error(result)), registers |-> FALSE]

\* the awaited future is done: the coroutine runs to its end, or on OK to its
\* wait for account_info_retrieved
legacy_log_on_resume(c) ==
    /\ callers[c].pc = "waiting"
    /\ callers[c].op \in {"authenticate_token", "legacy_authenticate_password"}
    /\ futures[callers[c].fut].done
    /\ LET f == futures[callers[c].fut]
           b == IF callers[c].op = "authenticate_token"
                  THEN legacy_authenticate_token_branch(f.result)
                  ELSE legacy_authenticate_password_branch(f.result)
       IN /\ callers' = [callers EXCEPT
                            ![c].pc = IF f.result = "OK" THEN "waiting_info" ELSE "done",
                            ![c].result = f.result, ![c].ret = b.ret]
          /\ auth_lost_handler' =
                IF b.registers THEN callers[c].handler ELSE auth_lost_handler
          /\ authenticated' = authenticated
    /\ UNCHANGED <<rsa_future, login_future, futures, steam_id, closed, nmsgs, handled,
                   handler_exc, lost_log>>

\* account_info_retrieved is set: authenticate_token returns, authenticate_password
\* goes on to wait for login_key_retrieved
legacy_account_info_waited(c) ==
    /\ callers[c].pc = "waiting_info"
    /\ account_info_retrieved
    /\ IF callers[c].op = "authenticate_token"
         THEN /\ callers' = [callers EXCEPT ![c].pc = "done",
                                            ![c].ret = Return(Action("NoActionRequired"))]
              /\ authenticated' = TRUE
         ELSE /\ callers' = [callers EXCEPT ![c].pc = "waiting_key"]
              /\ authenticated' = authenticated
    /\ UNCHANGED <<auth_lost_handler, rsa_future, login_future, futures, steam_id,
                   closed, nmsgs, handled, handler_exc, lost_log>>

\* login_key_retrieved is set: authenticate_password returns
legacy_login_key_waited(c) ==
    /\ callers[c].pc = "waiting_key"
    /\ login_key_retrieved
    /\ callers' = [callers EXCEPT ![c].pc = "done",
                                  ![c].ret = Return(Action("NoActionRequired"))]
    /\ authenticated' = TRUE
    /\ UNCHANGED <<auth_lost_handler, rsa_future, login_future, futures, steam_id,
                   closed, nmsgs, handled, handler_exc, lost_log>>

\* _log_on_handler
legacy_log_on_handler(result) ==
    /\ handled' = [kind |-> "login", result |-> result]
    /\ IF login_future = 0
         THEN /\ handler_exc' = Error("AssertionError", result)
              /\ UNCHANGED futures
         ELSE IF futures[login_future].done
                THEN /\ handler_exc' = Error("InvalidStateError", result)
                     /\ UNCHANGED futures
                ELSE /\ futures' = SetResult(login_future, result, NoneValue)
                     /\ handler_exc' = NoExc
    /\ UNCHANGED <<auth_lost_handler, rsa_future, login_future, steam_id, callers,
                   closed, lost_log, authenticated>>

\* _log_off_handler of the legacy client
legacy_log_off_handler(result) ==
    /\ handled' = [kind |-> "log_off", result |-> result]
    /\ IF auth_lost_handler # None
         THEN IF legacy_translate_error(result).kind = "AssertionError"
                THEN /\ handler_exc' = legacy_translate_error(result)
                     /\ UNCHANGED lost_log
                ELSE /\ lost_log' = Append(lost_log, [handler |-> auth_lost_handler,
                                                      error |-> legacy_translate_error(result)])
                     /\ handler_exc' = NoExc
         ELSE /\ handler_exc' = NoExc
              /\ UNCHANGED lost_log
    /\ UNCHANGED <<auth_lost_handler, rsa_future, login_future, futures, steam_id,
                   callers, closed, authenticated>>

\* the dispatcher routes a message to the legacy client
LegacyMessageArrives(results) ==
    /\ ~closed
    /\ nmsgs' = nmsgs + 1
    /\ \E result \in results :
          legacy_log_on_handler(result) \/ legacy_log_off_handler(result)

\* the protobuf client sets one of its events
LegacyEventSet ==
    /\ ~closed
    /\ \/ /\ ~account_info_retrieved
          /\ account_info_retrieved' = TRUE
          /\ UNCHANGED login_key_retrieved
       \/ /\ ~login_key_retrieved
          /\ login_key_retrieved' = TRUE
          /\ UNCHANGED account_info_retrieved

LegacyInit ==
    /\ ClientInit
    /\ steam_id = None
    /\ inbox = NoneValue
    /\ LegacyIdle
    /\ LicenseIdle
    /\ FriendsIdle
    /\ PluginIdle
    /\ SessionIdle

\* one caller of the legacy client, every result code
LegacyNext ==
    \/ /\ \/ /\ Len(futures) < MaxCodeFutures
             /\ \E h \in Handlers : legacy_authenticate_token_call("c1", h)
          \/ /\ Len(futures) < MaxCodeFutures
             /\ \E h \in Handlers : legacy_authenticate_password_call("c1", h)
          \/ legacy_log_on_sent("c1")
          \/ legacy_log_on_resume("c1")
          \/ legacy_account_info_waited("c1")
          \/ legacy_login_key_waited("c1")
          \/ finish("c1")
          \/ nmsgs < MaxCodeMsgs /\ LegacyMessageArrives(EResult)
          \/ close
       /\ UNCHANGED <<inbox, legacyVars, licenseVars, friendsVars, pluginVars, sessionVars>>
    \/ /\ LegacyEventSet
       /\ UNCHANGED <<authVars, inbox, licenseVars, friendsVars, pluginVars, sessionVars>>

SpecLegacy == LegacyInit /\ [][LegacyNext]_vars

(***************************************************************************)
(* License import.  A list of licenses is a record: the licenses listed    *)
(* one by one, by package id (small), and on top of them a block of bulk   *)
(* licenses for the further, pairwise distinct package ids b_1 .. b_bulk.  *)
(* A set of package ids is the same record with a set for small.           *)
(***************************************************************************)
\* the size below which a changed license list resets the cache
BulkImportThreshold == 12000

\* the package ids a batch lists one by one
SmallIds == {1, 2}

BulkSizes == {0, BulkImportThreshold - 2, BulkImportThreshold - 1, BulkImportThreshold}

RECURSIVE SeqsUpTo(_, _)
SeqsUpTo(S, n) ==
    IF n = 0 THEN {<<>>}
    ELSE LET shorter == SeqsUpTo(S, n - 1)
         IN shorter \cup {Append(l, x) : l \in shorter, x \in S}

LicenseBatches(n) == [small : SeqsUpTo(SmallIds, n), bulk : BulkSizes]

\* set([str(steam_license.license.package_id) for steam_license in steam_licenses])
PackageIdsOf(steam_licenses) ==
    [small |-> {steam_licenses.small[i] : i \in 1..Len(steam_licenses.small)},
     bulk |-> steam_licenses.bulk]

\* len() of a set of package ids
Size(ids) == Cardinality(ids.small) + ids.bulk

\* the licenses whose package is not in resolved_packages, in their order
NotResolved(steam_licenses, resolved_packages) ==
    [small |-> SelectSeq(steam_licenses.small, LAMBDA p : p \notin resolved_packages),
     bulk |-> steam_licenses.bulk]

\* GamesCache.start_packages_import: the packages of the licenses enter the
\* storing map
start_packages_import(cached, steam_licenses) ==
    [small |-> cached.small \cup PackageIdsOf(steam_licenses).small,
     bulk |-> IF steam_licenses.bulk > cached.bulk THEN steam_licenses.bulk ELSE cached.bulk]

\* GamesCache.reset_storing_map: an empty storing map
reset_storing_map == [small |-> {}, bulk |-> 0]

\* the test without the size limit
FullResync_any_size(ids, cached) == ids # cached

\* the test without the comparison with the cached package ids
FullResync_any_small(ids, cached) == Size(ids) < BulkImportThreshold

\* the two nested tests that lead to the reset
FullResync(ids, cached) ==
    /\ Size(ids) < BulkImportThreshold
    /\ ids # cached

\* what a run of the handler read before it changed anything
LicenseRun(resolved_packages, reset) ==
    [resolved_packages |-> resolved_packages, cached |-> package_ids, reset |-> reset]

\* the handler with a reset that imports only what was not resolved
license_import_handler_reset_new_only(steam_licenses) ==
    LET resolved_packages == resolved
        ids == PackageIdsOf(steam_licenses)
        not_resolved_licenses == NotResolved(steam_licenses, resolved_packages)
    IN /\ batch' = steam_licenses
       /\ nbatches' = nbatches + 1
       /\ license_run' = LicenseRun(resolved_packages, FullResync(ids, package_ids))
       /\ IF FullResync(ids, package_ids)
            THEN /\ reset_count' = reset_count + 1
                 /\ resolved' = {}
                 /\ package_ids' = start_packages_import(reset_storing_map, not_resolved_licenses)
                 /\ importing' = not_resolved_licenses
                 /\ requested' = not_resolved_licenses
            ELSE /\ package_ids' = start_packages_import(package_ids, not_resolved_licenses)
                 /\ importing' = not_resolved_licenses
                 /\ requested' = not_resolved_licenses
                 /\ UNCHANGED <<reset_count, resolved>>

\* the handler with a catch-up that imports the whole batch
license_import_handler_catch_up_all(steam_licenses) ==
    LET resolved_packages == resolved
        ids == PackageIdsOf(steam_licenses)
    IN /\ batch' = steam_licenses
       /\ nbatches' = nbatches + 1
       /\ license_run' = LicenseRun(resolved_packages, FullResync(ids, package_ids))
       /\ IF FullResync(ids, package_ids)
            THEN /\ reset_count' = reset_count + 1
                 /\ resolved' = {}
                 /\ package_ids' = start_packages_import(reset_storing_map, steam_licenses)
                 /\ importing' = steam_licenses
                 /\ requested' = steam_licenses
            ELSE /\ package_ids' = start_packages_import(package_ids, steam_licenses)
                 /\ importing' = steam_licenses
                 /\ requested' = steam_licenses
                 /\ UNCHANGED <<reset_count, resolved>>

\* _license_import_handler, up to and including its request for package info
license_import_handler(steam_licenses) ==
    LET resolved_packages == resolved
        ids == PackageIdsOf(steam_licenses)
        not_resolved_licenses == NotResolved(steam_licenses, resolved_packages)
    IN /\ batch' = steam_licenses
       /\ nbatches' = nbatches + 1
       /\ license_run' = LicenseRun(resolved_packages, FullResync(ids, package_ids))
       /\ IF FullResync(ids, package_ids)
            THEN /\ reset_count' = reset_count + 1
                 /\ resolved' = {}
                 /\ package_ids' = start_packages_import(reset_storing_map, steam_licenses)
                 /\ importing' = steam_licenses
                 /\ requested' = steam_licenses
            ELSE /\ package_ids' = start_packages_import(package_ids, not_resolved_licenses)
                 /\ importing' = not_resolved_licenses
                 /\ requested' = not_resolved_licenses
                 /\ UNCHANGED <<reset_count, resolved>>

\* _app_info_handler with a package id: the package gains an app
app_info_handler(package_id) ==
    /\ resolved' = resolved \cup {package_id}
    /\ UNCHANGED <<package_ids, importing, requested, reset_count, batch, nbatches,
                   license_run>>

LicenseInit ==
    /\ ClientInit
    /\ steam_id = None
    /\ inbox = NoneValue
    /\ LegacyIdle
    /\ LicenseIdle
    /\ FriendsIdle
    /\ PluginIdle
    /\ SessionIdle

LicenseNext ==
    /\ \/ /\ nbatches < MaxBatches
          /\ \E steam_licenses \in LicenseBatches(MaxBatch) :
                license_import_handler(steam_licenses)
       \/ \E package_id \in SmallIds : app_info_handler(package_id)
    /\ UNCHANGED <<authVars, inbox, legacyVars, friendsVars, pluginVars, sessionVars>>

SpecLicense == LicenseInit /\ [][LicenseNext]_vars

(***************************************************************************)
(* Friends.  A relationship message is a flag and a dict from user ids to  *)
(* relationships; the handler is followed up to its first await, after     *)
(* which it only sends requests.                                           *)
(***************************************************************************)
\* EFriendRelationship: the two members the handler names, and three others
Relationships == {"None_", "Friend", "Blocked", "Ignored", "RequestRecipient"}

\* the dicts a relationship message may carry
FriendDicts == UNION {[D -> Relationships] : D \in SUBSET Users}

\* FriendsCache.add
friends_cache_add(cache, user_ids) == cache \cup user_ids

\* FriendsCache.remove
friends_cache_remove(cache, user_ids) == cache \ user_ids

\* FriendsCache.reset
friends_cache_reset(user_ids) == user_ids

\* the users the loop meets in its elif branch
relationship_removed(friends) ==
    {u \in DOMAIN friends : friends[u] = "None_"}

\* the cache after a snapshot: reset(initial_friends)
relationship_snapshot(cache, friends) ==
    friends_cache_reset({u \in DOMAIN friends : friends[u] = "Friend"})

\* ProtocolClient._STATUS_FLAG
STATUS_FLAG == 1106

\* what the handler does after its loop, in order: the reset of the cache and
\* the requests it sends; new_friends are the users the message declares Friend
relationship_follow_up(incremental, new_friends) ==
    IF ~incremental
    THEN <<[op |-> "reset", users |-> new_friends],
           [op |-> "set_persona_state", state |-> "Invisible"],
           [op |-> "get_friends_statuses"],
           [op |-> "get_user_infos", users |-> new_friends, flag |-> STATUS_FLAG]>>
    ELSE IF new_friends # {}
    THEN <<[op |-> "get_friends_statuses"],
           [op |-> "get_user_infos", users |-> new_friends, flag |-> STATUS_FLAG]>>
    ELSE <<>>

\* _relationship_handler
relationship_handler(incremental, friends) ==
    LET new_friends == {u \in DOMAIN friends : friends[u] = "Friend"}
        failed == ~incremental /\ relationship_removed(friends) # {}
    IN /\ nrelationships' = nrelationships + 1
       /\ relationship_run' =
             [incremental |-> incremental, friends |-> friends,
              exc |-> IF failed THEN Error("AssertionError", "incremental") ELSE NoExc,
              follow_up |-> IF failed THEN <<>>
                            ELSE relationship_follow_up(incremental, new_friends)]
       /\ declared' = [u \in Users |->
                          IF u \in DOMAIN friends THEN friends[u]
                          ELSE IF incremental THEN declared[u] ELSE "undeclared"]
       /\ friends_cache' =
             IF failed THEN friends_cache
             ELSE IF incremental
               THEN friends_cache_remove(friends_cache_add(friends_cache, new_friends),
                                         relationship_removed(friends))
               ELSE relationship_snapshot(friends_cache, friends)

FriendsInit ==
    /\ ClientInit
    /\ steam_id = None
    /\ inbox = NoneValue
    /\ LegacyIdle
    /\ LicenseIdle
    /\ FriendsIdle
    /\ PluginIdle
    /\ SessionIdle

FriendsNext ==
    /\ nrelationships < MaxRelationships
    /\ \E incremental \in BOOLEAN, friends \in FriendDicts :
          relationship_handler(incremental, friends)
    /\ UNCHANGED <<authVars, inbox, legacyVars, licenseVars, pluginVars, sessionVars>>

SpecFriends == FriendsInit /\ [][FriendsNext]_vars

(***************************************************************************)
(* Achievements.  A call of get_unlocked_achievements runs to its end or   *)
(* to the semaphore of _get_achievements; there it waits for the           *)
(* semaphore, then for the backend's reply.                                *)
(***************************************************************************)
\* GameTime records of the context, by minutes played and last played time
GameTimes == [time_played : {0, 60}, last_played_time : {1, 2}]

\* a list of Achievement objects
List(items) == [type |-> "list", items |-> items]

AchievementLists == {List(<<>>), List(<<"a1">>)}

\* a fingerprint of the minutes played alone
Fingerprint_minutes_only(last_played_time, time_played) ==
    [last_played_time |-> 0, time_played |-> time_played]

\* achievements_cache.Fingerprint(last_played_time, time_played)
Fingerprint(last_played_time, time_played) ==
    [last_played_time |-> last_played_time, time_played |-> time_played]

\* Cache.get: the achievements stored for the game under this fingerprint
cache_get(cache, game_id, fingerprint) ==
    IF cache[game_id] # NoneValue /\ cache[game_id].fingerprint = fingerprint
      THEN cache[game_id].achievements
      ELSE NoneValue

\* Cache.update
cache_update(cache, game_id, achievements, fingerprint) ==
    [cache EXCEPT ![game_id] = [achievements |-> achievements, fingerprint |-> fingerprint]]

\* a test that never takes the short cut
NothingPlayed_never(game_time) == FALSE

\* game_time.time_played == 0
NothingPlayed(game_time) == game_time.time_played = 0

\* an acquire that never waits
CanAcquire_always(value) == TRUE

\* Semaphore.acquire goes on without waiting
CanAcquire(value) == value > 0

\* a finished call: what it was given, whether it got as far as the cache and
\* as the backend, what the cache gave it, and how it ended
Returned(game_id, game_time, consulted, fetched, got, ret) ==
    [game_id |-> game_id, game_time |-> game_time, consulted |-> consulted,
     fetched |-> fetched, got |-> got, ret |-> ret]

\* a suspended call
Call(game_id, game_time, fingerprint, pc) ==
    [game_id |-> game_id, game_time |-> game_time, fingerprint |-> fingerprint, pc |-> pc]

\* get_unlocked_achievements up to its return or to the semaphore
get_unlocked_achievements(game_id, game_time) ==
    IF game_time = NoneValue
      THEN /\ returned' = Returned(game_id, game_time, FALSE, FALSE, NoneValue,
                                   Raise(Error("AttributeError", "time_played")))
           /\ UNCHANGED <<achievements_cache, achievements_cache_updated,
                          achievements_semaphore, calls, last_write>>
    ELSE IF NothingPlayed(game_time)
      THEN /\ returned' = Returned(game_id, game_time, FALSE, FALSE, NoneValue,
                                   Return(List(<<>>)))
           /\ UNCHANGED <<achievements_cache, achievements_cache_updated,
                          achievements_semaphore, calls, last_write>>
    ELSE LET fingerprint == Fingerprint(game_time.last_played_time, game_time.time_played)
             achievements == cache_get(achievements_cache, game_id, fingerprint)
         IN IF achievements # NoneValue
              THEN /\ returned' = Returned(game_id, game_time, TRUE, FALSE, achievements,
                                           Return(achievements))
                   /\ UNCHANGED <<achievements_cache, achievements_cache_updated,
                                  achievements_semaphore, calls, last_write>>
              ELSE /\ calls' = calls (+) SetToBag({Call(game_id, game_time, fingerprint,
                                                        "acquiring")})
                   /\ UNCHANGED <<achievements_cache, achievements_cache_updated,
                                  achievements_semaphore, returned, last_write>>

\* _get_achievements enters its async with: the semaphore is taken and the
\* request to the backend is under way
get_achievements_acquire(call) ==
    /\ call \in BagToSet(calls)
    /\ call.pc = "acquiring"
    /\ CanAcquire(achievements_semaphore)
    /\ achievements_semaphore' = achievements_semaphore - 1
    /\ calls' = (calls (-) SetToBag({call})) (+) SetToBag({[call EXCEPT !.pc = "requesting"]})
    /\ UNCHANGED <<achievements_cache, achievements_cache_updated, returned, last_write>>

\* a reply handed to the caller with the cache and its flag left alone
get_achievements_reply_no_update(call, achievements) ==
    /\ call \in BagToSet(calls)
    /\ call.pc = "requesting"
    /\ achievements_semaphore' = achievements_semaphore + 1
    /\ calls' = calls (-) SetToBag({call})
    /\ returned' = Returned(call.game_id, call.game_time, TRUE, TRUE, NoneValue,
                            Return(achievements))
    /\ UNCHANGED <<achievements_cache, achievements_cache_updated, last_write>>

\* the backend's reply: _get_achievements leaves its async with and returns,
\* get_unlocked_achievements updates the cache and returns
get_achievements_reply(call, achievements) ==
    /\ call \in BagToSet(calls)
    /\ call.pc = "requesting"
    /\ achievements_semaphore' = achievements_semaphore + 1
    /\ calls' = calls (-) SetToBag({call})
    /\ achievements_cache' =
          cache_update(achievements_cache, call.game_id, achievements, call.fingerprint)
    /\ last_write' = [last_write EXCEPT ![call.game_id] =
                        [achievements |-> achievements, fingerprint |-> call.fingerprint]]
    /\ achievements_cache_updated' = TRUE
    /\ returned' = Returned(call.game_id, call.game_time, TRUE, TRUE, NoneValue,
                            Return(achievements))

\* a failure that keeps its slot of the semaphore
get_achievements_failure_keeps_slot(call) ==
    /\ call \in BagToSet(calls)
    /\ call.pc = "requesting"
    /\ calls' = calls (-) SetToBag({call})
    /\ returned' = Returned(call.game_id, call.game_time, TRUE, TRUE, NoneValue,
                            Raise(Error("BackendError", "get_achievements")))
    /\ UNCHANGED <<achievements_cache, achievements_cache_updated, achievements_semaphore,
                   last_write>>

\* the backend request fails: the exception leaves the async with and the call
get_achievements_failure(call) ==
    /\ call \in BagToSet(calls)
    /\ call.pc = "requesting"
    /\ achievements_semaphore' = achievements_semaphore + 1
    /\ calls' = calls (-) SetToBag({call})
    /\ returned' = Returned(call.game_id, call.game_time, TRUE, TRUE, NoneValue,
                            Raise(Error("BackendError", "get_achievements")))
    /\ UNCHANGED <<achievements_cache, achievements_cache_updated, last_write>>

\* achievements_import_complete
achievements_import_complete ==
    /\ achievements_cache_updated' = FALSE
    /\ UNCHANGED <<achievements_cache, achievements_semaphore, calls, returned, last_write>>

PluginInit ==
    /\ ClientInit
    /\ steam_id = None
    /\ inbox = NoneValue
    /\ LegacyIdle
    /\ LicenseIdle
    /\ FriendsIdle
    /\ PluginIdle
    /\ SessionIdle

PluginStep(games, times, lists, maxCalls) ==
    /\ \/ /\ BagCardinality(calls) < maxCalls
          /\ \E game_id \in games, game_time \in times :
                get_unlocked_achievements(game_id, game_time)
       \/ \E call \in BagToSet(calls) : get_achievements_acquire(call)
       \/ \E call \in BagToSet(calls), achievements \in lists :
             get_achievements_reply(call, achievements)
       \/ \E call \in BagToSet(calls) : get_achievements_failure(call)
       \/ achievements_import_complete
    /\ UNCHANGED <<authVars, inbox, legacyVars, licenseVars, friendsVars, sessionVars>>

\* a few calls at a time, over every game, game time and achievement list
AchievementsNext ==
    PluginStep(Games, GameTimes \cup {NoneValue}, AchievementLists, MaxCalls)

SpecAchievements == PluginInit /\ [][AchievementsNext]_vars

\* more calls at a time than the semaphore admits, all for one played game
RateLimitNext ==
    PluginStep({"g1"}, {[time_played |-> 60, last_played_time |-> 1]}, {List(<<"a1">>)},
               MaxBurst)

SpecRateLimit == PluginInit /\ [][RateLimitNext]_vars

\* the game time and the list of the runs that fill the semaphore
BurstGameTime == [time_played |-> 60, last_played_time |-> 1]

\* one call for g2 at a time among the calls for g1
RateLimitWatchedNext ==
    \/ RateLimitNext
    \/ /\ BagCardinality(calls) < MaxBurst
       /\ \A call \in BagToSet(calls) : call.game_id # "g2"
       /\ get_unlocked_achievements("g2", BurstGameTime)
       /\ UNCHANGED <<authVars, inbox, legacyVars, licenseVars, friendsVars, sessionVars>>

\* the suspended calls there can be in these runs
BurstCalls ==
    {Call(game_id, BurstGameTime,
          Fingerprint(BurstGameTime.last_played_time, BurstGameTime.time_played), pc) :
        game_id \in {"g1", "g2"}, pc \in {"acquiring", "requesting"}}

\* the event loop runs every call that can go on; every backend request ends,
\* with a reply or a failure; the semaphore wakes its waiters in their order,
\* so a waiting call is not passed over for ever
SpecRateLimitFair ==
    /\ PluginInit
    /\ [][RateLimitWatchedNext]_vars
    /\ \A call \in BurstCalls :
          /\ WF_vars(/\ \/ get_achievements_reply(call, List(<<"a1">>))
                        \/ get_achievements_failure(call)
                     /\ UNCHANGED <<authVars, inbox, legacyVars, licenseVars, friendsVars, sessionVars>>)
          /\ SF_vars(/\ get_achievements_acquire(call)
                     /\ UNCHANGED <<authVars, inbox, legacyVars, licenseVars, friendsVars, sessionVars>>)

(***************************************************************************)
(* Job submission of the two clients.                                      *)
(***************************************************************************)
StatsJob(game_id) == [job_name |-> "import_game_stats", game_id |-> game_id]

TimesJob == [job_name |-> "import_game_times"]

\* the lists of game ids import_game_stats is called with
GameIdLists == SeqsUpTo(Games, MaxIds)

\* the jobs put in front of the queued ones
import_game_stats_loop_at_front(list, game_ids) ==
    [i \in 1..Len(game_ids) |-> StatsJob(game_ids[i])] \o list

\* for game_id in game_ids: job_list.append({...})
RECURSIVE import_game_stats_loop(_, _)
import_game_stats_loop(list, game_ids) ==
    IF game_ids = <<>> THEN list
    ELSE import_game_stats_loop(Append(list, StatsJob(Head(game_ids))), Tail(game_ids))

JobRun(client, job_name, game_ids) ==
    [client |-> client, job_name |-> job_name, game_ids |-> game_ids, before |-> job_list]

\* steam_network ProtocolClient.import_game_stats: runs to its end with no await
import_game_stats(game_ids) ==
    /\ Len(job_list["steam_network"]) + Len(game_ids) <= MaxJobs
    /\ job_list' = [job_list EXCEPT
                      !["steam_network"] = import_game_stats_loop(@, game_ids)]
    /\ job_run' = JobRun("steam_network", "import_game_stats", game_ids)

\* steam_network ProtocolClient.import_game_times
import_game_times ==
    /\ Len(job_list["steam_network"]) < MaxJobs
    /\ job_list' = [job_list EXCEPT !["steam_network"] = Append(@, TimesJob)]
    /\ job_run' = JobRun("steam_network", "import_game_times", <<>>)

\* legacy ProtocolClient.import_game_stats
legacy_import_game_stats(game_ids) ==
    /\ Len(job_list["protocol"]) + Len(game_ids) <= MaxJobs
    /\ job_list' = [job_list EXCEPT !["protocol"] = import_game_stats_loop(@, game_ids)]
    /\ job_run' = JobRun("protocol", "import_game_stats", game_ids)

\* legacy ProtocolClient.import_game_times
legacy_import_game_times ==
    /\ Len(job_list["protocol"]) < MaxJobs
    /\ job_list' = [job_list EXCEPT !["protocol"] = Append(@, TimesJob)]
    /\ job_run' = JobRun("protocol", "import_game_times", <<>>)

\* the dispatcher takes the job at the head of a client's list to send it
job_taken(client) ==
    /\ job_list[client] # <<>>
    /\ job_list' = [job_list EXCEPT ![client] = Tail(@)]
    /\ job_run' = NoneValue

JobsInit ==
    /\ ClientInit
    /\ steam_id = None
    /\ inbox = NoneValue
    /\ LegacyIdle
    /\ LicenseIdle
    /\ FriendsIdle
    /\ PluginIdle
    /\ SessionIdle

JobsNext ==
    /\ \/ \E game_ids \in GameIdLists : import_game_stats(game_ids)
       \/ import_game_times
       \/ \E game_ids \in GameIdLists : legacy_import_game_stats(game_ids)
       \/ legacy_import_game_times
       \/ \E client \in Clients : job_taken(client)
    /\ UNCHANGED <<authVars, inbox, legacyVars, licenseVars, friendsVars, pluginVars,
                   statsVars, timesVars, startupVars, machineVars, facadeVars>>

SpecJobs == JobsInit /\ [][JobsNext]_vars

(***************************************************************************)
(* steam_network client: the stats handler.                                *)
(***************************************************************************)
\* achievement bits per block: the id of bit i of block b is 32 * (b - 1) + i
BitsPerBlock == 32

\* the block ids and the bit indexes of the replies
BlockIds == {1, 2}
Bits == {0, 1}
UnlockTimes == {0, 5}

\* what schema[game_id]['stats'][block_id]['bits'][str(i)] can hold:
\*   "english"    {'display': {'name': {'english': ...}}}
\*   "plain"      {'display': {'name': '...'}}
\*   "no_english" {'display': {'name': {}}}, a name dict without 'english'
\*   "missing"    a key of the path is missing
\*   "not_a_dict" a string where the path expects a dict
EntryKinds == {"english", "plain", "no_english", "missing", "not_a_dict"}

\* schema[game_id]['stats']: per block id, None for a missing key
BlockSchemas == {NoneValue} \cup [bits : [Bits -> EntryKinds]]
Schemas == [BlockIds -> BlockSchemas]

\* an achievement block: unlock_time[i + 1] is the unlock time of bit i
AchievementBlocks ==
    [achievement_id : BlockIds, unlock_time : [1..Cardinality(Bits) -> UnlockTimes]]

StatsReplies(n) ==
    [game_id : {"g1"}, achievement_blocks : SeqsUpTo(AchievementBlocks, n), schema : Schemas]

KeyError == [type |-> "KeyError"]
TypeError == [type |-> "TypeError"]

DisplayName(block_id, bit_no, kind) == [block |-> block_id, bit |-> bit_no, name |-> kind]

\* get_achievement_name: the name, or the exception the look-up raises
get_achievement_name(block_id, achievements_block_schema, bit_no) ==
    LET kind == achievements_block_schema.bits[bit_no]
    IN CASE kind = "missing" -> [exc |-> KeyError]
         [] kind = "not_a_dict" -> [exc |-> TypeError]
         [] kind = "no_english" -> [exc |-> KeyError]
         [] kind = "english" -> [exc |-> NoneValue, name |-> DisplayName(block_id, bit_no, kind)]
         [] kind = "plain" -> [exc |-> NoneValue, name |-> DisplayName(block_id, bit_no, kind)]

Achievement(block_id, i, unlock_time, name) ==
    [id |-> BitsPerBlock * (block_id - 1) + i, unlock_time |-> unlock_time, name |-> name]

\* for i, unlock_time in enumerate(achievement_block.unlock_time), from bit i on
RECURSIVE stats_bits_loop(_, _, _, _)
stats_bits_loop(achievement_block, stats_block_schema, i, achievements_unlocked) ==
    IF i >= Len(achievement_block.unlock_time)
    THEN [exc |-> NoneValue, achievements_unlocked |-> achievements_unlocked]
    ELSE LET unlock_time == achievement_block.unlock_time[i + 1]
             got == get_achievement_name(achievement_block.achievement_id,
                                         stats_block_schema, i)
         IN IF unlock_time > 0
            THEN IF got.exc = KeyError
                 THEN stats_bits_loop(achievement_block, stats_block_schema, i + 1,
                                      achievements_unlocked)
                 ELSE IF got.exc # NoneValue
                 THEN [exc |-> got.exc, achievements_unlocked |-> achievements_unlocked]
                 ELSE stats_bits_loop(achievement_block, stats_block_schema, i + 1,
                                      Append(achievements_unlocked,
                                             Achievement(achievement_block.achievement_id,
                                                         i, unlock_time, got.name)))
            ELSE stats_bits_loop(achievement_block, stats_block_schema, i + 1,
                                 achievements_unlocked)

\* for achievement_block in achievement_blocks
RECURSIVE stats_blocks_loop(_, _, _)
stats_blocks_loop(achievement_blocks, schema, achievements_unlocked) ==
    IF achievement_blocks = <<>>
    THEN [exc |-> NoneValue, achievements_unlocked |-> achievements_unlocked]
    ELSE LET achievement_block == Head(achievement_blocks)
             stats_block_schema == schema[achievement_block.achievement_id]
         IN IF stats_block_schema = NoneValue
            THEN stats_blocks_loop(Tail(achievement_blocks), schema, achievements_unlocked)
            ELSE LET done == stats_bits_loop(achievement_block, stats_block_schema, 0,
                                             achievements_unlocked)
                 IN IF done.exc # NoneValue
                    THEN done
                    ELSE stats_blocks_loop(Tail(achievement_blocks), schema,
                                           done.achievements_unlocked)

\* _stats_handler, given the reply in flight
stats_handler ==
    /\ stats_reply # NoneValue
    /\ LET done == stats_blocks_loop(stats_reply.achievement_blocks, stats_reply.schema, <<>>)
       IN /\ update_stats_calls' =
                IF done.exc = NoneValue
                THEN Append(update_stats_calls,
                            [game_id |-> stats_reply.game_id,
                             achievements |-> done.achievements_unlocked])
                ELSE update_stats_calls
          /\ stats_run' = [reply |-> stats_reply, exc |-> done.exc]
    /\ stats_reply' = NoneValue

StatsInit ==
    /\ ClientInit
    /\ steam_id = None
    /\ inbox = NoneValue
    /\ LegacyIdle
    /\ LicenseIdle
    /\ FriendsIdle
    /\ PluginIdle
    /\ JobsIdle
    /\ TimesIdle
    /\ StartupIdle
    /\ MachineIdle
    /\ FacadeIdle
    /\ stats_reply \in StatsReplies(MaxBlocks)
    /\ update_stats_calls = <<>>
    /\ stats_run = NoneValue

StatsNext ==
    /\ stats_handler
    /\ UNCHANGED <<authVars, inbox, legacyVars, licenseVars, friendsVars, pluginVars, jobVars,
                   timesVars, startupVars, machineVars, facadeVars>>

SpecStats == StatsInit /\ [][StatsNext]_vars

(***************************************************************************)
(* Plugin: the game times of the own and of the shared games.              *)
(***************************************************************************)
\* the last_played value the backend sends for a game with no last-played time
NeverPlayed == 86400

\* a Python int where None is possible too
IntValue(n) == [int |-> n]

\* a key a dict does not have
MissingKey == "<missing>"

\* hours_forever texts, and int(float(text.replace(",", "")) * 60) of each
HoursTexts == {"0.5", "1,000", "x"}
ValueError == [type |-> "ValueError"]
AttributeError == [type |-> "AttributeError"]
UnknownBackendResponse == [type |-> "UnknownBackendResponse"]

minutes_forever(text) ==
    CASE text = "0" -> [exc |-> NoneValue, minutes |-> 0]
      [] text = "0.5" -> [exc |-> NoneValue, minutes |-> 30]
      [] text = "1,000" -> [exc |-> NoneValue, minutes |-> 60000]
      [] OTHER -> [exc |-> ValueError]

\* the game dicts of the backend: game.get("last_played") is None for a missing key
OwnGameDicts ==
    [appid : Games \cup {MissingKey},
     last_played : {NoneValue, IntValue(NeverPlayed), IntValue(5)},
     hours_forever : HoursTexts \cup {MissingKey}]

\* the ids of shared games the local file can list, and the keys of an entry
SharedIds == {"s1"}
ItemKeys == {"playtime", "playTime", "lastplayed", "LastPlayed"}
ItemValue(key) == IF key = "playTime" THEN 45 ELSE 7

\* load_vdf(vdfFile): None stands for a document without the path
\* UserLocalConfigStore/Software/Valve/Steam/Apps, apps is the table at that path
LocalConfigs ==
    {NoneValue} \cup
    {[apps |-> timedata] :
        timedata \in UNION {[ids -> SUBSET ItemKeys] : ids \in SUBSET SharedIds}}

GameTime(game_id, time_played, last_played_time) ==
    [game_id |-> game_id, time_played |-> time_played, last_played_time |-> last_played_time]

\* game_times[key] = value
DictSet(dict, key, value) ==
    [k \in DOMAIN dict \cup {key} |-> IF k = key THEN value ELSE dict[k]]

\* the first try block: for game in games
RECURSIVE own_games_loop(_, _)
own_games_loop(games, game_times) ==
    IF games = <<>> THEN [exc |-> NoneValue, game_times |-> game_times]
    ELSE LET game == Head(games)
             last_played == IF game.last_played = IntValue(NeverPlayed)
                            THEN NoneValue ELSE game.last_played
             parsed == minutes_forever(IF game.hours_forever = MissingKey
                                       THEN "0" ELSE game.hours_forever)
         IN IF game.appid = MissingKey THEN [exc |-> KeyError, game_times |-> game_times]
            ELSE IF parsed.exc # NoneValue THEN [exc |-> parsed.exc, game_times |-> game_times]
            ELSE own_games_loop(Tail(games),
                                DictSet(game_times, game.appid,
                                        GameTime(game.appid, parsed.minutes, last_played)))

\* self.otherGames: SteamPlugin has _other_games (lines 81, 211) and no otherGames
otherGames == [exc |-> AttributeError]

\* for gameid in self.otherGames
RECURSIVE other_games_loop(_, _, _)
other_games_loop(timedata, gameids, game_times) ==
    IF gameids = <<>> THEN [exc |-> NoneValue, game_times |-> game_times]
    ELSE LET gameid == Head(gameids)
             listed == gameid \in DOMAIN timedata
             item == timedata[gameid]
             readsPlayTime == listed /\ "playtime" \in item
             readsLastPlayed == listed /\ "lastplayed" \in item
         IN IF readsPlayTime /\ "playTime" \notin item
            THEN [exc |-> KeyError, game_times |-> game_times]
            ELSE IF readsLastPlayed /\ "LastPlayed" \notin item
            THEN [exc |-> KeyError, game_times |-> game_times]
            ELSE LET playTime == IF readsPlayTime THEN ItemValue("playTime") ELSE 0
                     lastPlayed == IF readsLastPlayed THEN ItemValue("LastPlayed")
                                   ELSE NeverPlayed
                 IN other_games_loop(timedata, Tail(gameids),
                                     DictSet(game_times, gameid,
                                             GameTime(gameid, playTime, IntValue(lastPlayed))))

\* the second try block, from load_vdf on
local_game_times(data, game_times) ==
    IF data = NoneValue THEN [exc |-> KeyError, game_times |-> game_times]
    ELSE IF otherGames.exc # NoneValue THEN [exc |-> otherGames.exc, game_times |-> game_times]
    ELSE other_games_loop(data.apps, otherGames.value, game_times)

\* _get_game_times_dict: what it returns or raises
get_game_times_dict_result(games, data) ==
    LET own == own_games_loop(games, <<>>)
        local == local_game_times(data, own.game_times)
    IN IF own.exc # NoneValue
       THEN [exc |-> UnknownBackendResponse, logged |-> <<own.exc>>]
       ELSE IF local.exc \in {KeyError, ValueError}
       THEN [exc |-> NoneValue, logged |-> <<local.exc>>, game_times |-> local.game_times]
       ELSE IF local.exc # NoneValue
       THEN [exc |-> local.exc, logged |-> <<>>]
       ELSE [exc |-> NoneValue, logged |-> <<>>, game_times |-> local.game_times]

\* _get_game_times_dict
get_game_times_dict ==
    /\ game_times_run = NoneValue
    /\ game_times_run' = get_game_times_dict_result(own_games, local_config)
    /\ UNCHANGED <<own_games, local_config>>

GameTimesInit ==
    /\ ClientInit
    /\ steam_id = None
    /\ inbox = NoneValue
    /\ LegacyIdle
    /\ LicenseIdle
    /\ FriendsIdle
    /\ PluginIdle
    /\ JobsIdle
    /\ StatsIdle
    /\ StartupIdle
    /\ MachineIdle
    /\ FacadeIdle
    /\ own_games \in SeqsUpTo(OwnGameDicts, MaxOwnGames)
    /\ local_config \in LocalConfigs
    /\ game_times_run = NoneValue

GameTimesNext ==
    /\ get_game_times_dict
    /\ UNCHANGED <<authVars, inbox, legacyVars, licenseVars, friendsVars, pluginVars, jobVars,
                   statsVars, startupVars, machineVars, facadeVars>>

SpecGameTimes == GameTimesInit /\ [][GameTimesNext]_vars

(***************************************************************************)
(* Plugin: the persisted achievements cache at handshake_complete.         *)
(***************************************************************************)
\* the contents an achievements cache can have
CacheContents ==
    [Games -> {NoneValue} \cup
              [achievements : AchievementLists,
               fingerprint : {Fingerprint(t.last_played_time, t.time_played) : t \in GameTimes}]]

\* the JSON documents: the dict of a cache, or a document of another shape
Documents == [shape : {"cache"}, entries : CacheContents] \cup {[shape |-> "other"]}

\* what persistent_cache.get("achievements") gives: None, a text that is not
\* JSON, or the text of a document
PersistedValues ==
    {NoneValue, [text |-> "garbage"]} \cup [text : {"json"}, value : Documents]

\* json.loads
json_loads(text) ==
    IF text.text = "json" THEN [exc |-> NoneValue, value |-> text.value]
    ELSE [exc |-> ValueError]

\* achievements_cache.from_dict: the cache of a cache dict, an exception otherwise
from_dict(document) ==
    IF document.shape = "cache" THEN [exc |-> NoneValue, cache |-> document.entries]
    ELSE [exc |-> KeyError]

\* the body of the try block
deserialize(text) ==
    LET loaded == json_loads(text)
    IN IF loaded.exc # NoneValue THEN loaded ELSE from_dict(loaded.value)

\* an except clause for ValueError alone
handshake_except_value_error(exc) == exc = ValueError

\* except Exception
handshake_except(exc) == exc \in {ValueError, KeyError, TypeError, AttributeError}

\* handshake_complete
handshake_complete ==
    /\ handshake_run = NoneValue
    /\ IF persistent_cache = NoneValue
       THEN /\ handshake_run' = [exc |-> NoneValue, logged |-> <<>>]
            /\ UNCHANGED achievements_cache
       ELSE LET done == deserialize(persistent_cache)
            IN IF done.exc = NoneValue
               THEN /\ achievements_cache' = done.cache
                    /\ handshake_run' = [exc |-> NoneValue, logged |-> <<>>]
               ELSE /\ UNCHANGED achievements_cache
                    /\ handshake_run' =
                          IF handshake_except(done.exc)
                          THEN [exc |-> NoneValue, logged |-> <<done.exc>>]
                          ELSE [exc |-> done.exc, logged |-> <<>>]
    /\ UNCHANGED <<persistent_cache, achievements_cache_updated, achievements_semaphore,
                   calls, returned, last_write>>

HandshakeInit ==
    /\ ClientInit
    /\ steam_id = None
    /\ inbox = NoneValue
    /\ LegacyIdle
    /\ LicenseIdle
    /\ FriendsIdle
    /\ PluginIdle
    /\ JobsIdle
    /\ StatsIdle
    /\ TimesIdle
    /\ MachineIdle
    /\ FacadeIdle
    /\ persistent_cache \in PersistedValues
    /\ handshake_run = NoneValue

HandshakeNext ==
    /\ handshake_complete
    /\ UNCHANGED <<authVars, inbox, legacyVars, licenseVars, friendsVars, jobVars, statsVars,
                   timesVars, machineVars, facadeVars>>

SpecHandshake == HandshakeInit /\ [][HandshakeNext]_vars

(***************************************************************************)
(* steam_network client: the machine id.                                   *)
(***************************************************************************)
\* bytes objects: b"" and the values secrets.token_bytes() can give
EmptyBytes == [bytes |-> <<>>]
TokenBytes == {[bytes |-> <<t>>] : t \in {1, 2, 3}}

\* what a local machine cache can hold as its machine id when a run starts
MachineIdValues == {NoneValue, EmptyBytes} \cup TokenBytes

\* a test that finds no machine id, whatever the cache holds
machine_id_missing_always(machine_id) == TRUE

\* not self._local_machine_cache.machine_id
machine_id_missing(machine_id) == machine_id = NoneValue \/ machine_id = EmptyBytes

\* ProtocolClient.__init__ on the local machine cache m; token is what
\* _generate_machine_id gives if it is called
protocol_client_init(m, token) ==
    /\ Len(clients) < MaxClients
    /\ LET missing == machine_id_missing(machine_cache[m])
           stored == IF missing THEN token ELSE machine_cache[m]
       IN /\ machine_cache' = [machine_cache EXCEPT ![m] = stored]
          /\ generated' = [generated EXCEPT ![m] = IF missing THEN @ + 1 ELSE @]
          /\ clients' = Append(clients, [cache |-> m, machine_id |-> stored])

MachineInit ==
    /\ ClientInit
    /\ steam_id = None
    /\ inbox = NoneValue
    /\ LegacyIdle
    /\ LicenseIdle
    /\ FriendsIdle
    /\ PluginIdle
    /\ JobsIdle
    /\ StatsIdle
    /\ TimesIdle
    /\ StartupIdle
    /\ FacadeIdle
    /\ machine_cache \in [MachineCaches -> MachineIdValues]
    /\ clients = <<>>
    /\ generated = [m \in MachineCaches |-> 0]

MachineNext ==
    /\ \E m \in MachineCaches, token \in TokenBytes : protocol_client_init(m, token)
    /\ UNCHANGED <<authVars, inbox, legacyVars, licenseVars, friendsVars, pluginVars, jobVars,
                   statsVars, timesVars, startupVars, facadeVars>>

SpecMachine == MachineInit /\ [][MachineNext]_vars

(***************************************************************************)
(* Plugin: authentication and the operations that need it.  _do_auth and   *)
(* one other operation run side by side, each cut at its awaits.           *)
(***************************************************************************)
AuthenticationRequired == [type |-> "AuthenticationRequired"]
InvalidCredentials == [type |-> "InvalidCredentials"]
AccessDenied == [type |-> "AccessDenied"]
BackendNotAvailable == [type |-> "BackendNotAvailable"]

\* the operations that test self._steam_id first
GatedOps ==
    {"get_owned_games", "get_friends", "prepare_game_times_context",
     "prepare_achievements_context"}

\* what self._client.get_profile() gives or raises
ProfileOutcomes ==
    {[exc |-> NoneValue, profile_url |-> "profile"], [exc |-> UnknownBackendResponse],
     [exc |-> BackendNotAvailable]}

\* what self._client.get_profile_data(profile_url) gives or raises
ProfileDataOutcomes ==
    [exc : {NoneValue}, steam_id : SteamIds, login : {"login"}]
    \cup {[exc |-> AccessDenied], [exc |-> BackendNotAvailable]}

\* the game dicts self._client.get_games gives
BackendGame(appid) ==
    [appid |-> appid, last_played |-> IntValue(5), hours_forever |-> "0.5"]
BackendGameLists ==
    {<<>>, <<BackendGame("g1")>>, <<BackendGame("g1"), BackendGame("g2")>>,
     <<BackendGame(MissingKey)>>}

\* the friends self._client.get_friends gives; shared stands for "!" in user_name
FriendInfo(user_id, shared) == [user_id |-> user_id, shared |-> shared]
FriendLists ==
    {<<>>, <<FriendInfo("u1", FALSE)>>, <<FriendInfo("u1", TRUE)>>,
     <<FriendInfo("u1", TRUE), FriendInfo("u2", TRUE)>>}

\* a test that never finds the steam id unset
steam_id_is_none_never(id) == FALSE

\* self._steam_id is None
steam_id_is_none(id) == id = None

\* a suspended operation and a finished one; requests are the backend requests
\* it has issued
PluginOp(op, pc, requests, profiles) ==
    [op |-> op, pc |-> pc, requests |-> requests, profiles |-> profiles]
PluginRun(op, requests, ret) == [op |-> op, requests |-> requests, ret |-> ret]

\* _do_auth up to await self._client.get_profile()
do_auth_call ==
    /\ auth_op = NoneValue
    /\ auth_op' = [pc |-> "get_profile"]
    /\ UNCHANGED <<plugin_steam_id, own_friends, plugin_op, auth_run, plugin_run, own_games>>

\* _do_auth from get_profile to get_profile_data
do_auth_profile(outcome) ==
    /\ auth_op # NoneValue
    /\ auth_op.pc = "get_profile"
    /\ IF outcome.exc = NoneValue
       THEN /\ auth_op' = [pc |-> "get_profile_data"]
            /\ UNCHANGED auth_run
       ELSE /\ auth_op' = NoneValue
            /\ auth_run' = [profile |-> outcome, profile_data |-> NoneValue,
                            ret |-> IF outcome.exc = UnknownBackendResponse
                                    THEN Raise(InvalidCredentials) ELSE Raise(outcome.exc)]
    /\ UNCHANGED <<plugin_steam_id, own_friends, plugin_op, plugin_run, own_games>>

\* _do_auth from get_profile_data to its end
do_auth_profile_data(outcome) ==
    /\ auth_op # NoneValue
    /\ auth_op.pc = "get_profile_data"
    /\ auth_op' = NoneValue
    /\ IF outcome.exc = NoneValue
       THEN /\ plugin_steam_id' = outcome.steam_id
            /\ auth_run' = [profile |-> [exc |-> NoneValue, profile_url |-> "profile"],
                            profile_data |-> outcome,
                            ret |-> Return([type |-> "Authentication",
                                            user_id |-> outcome.steam_id,
                                            user_name |-> outcome.login])]
       ELSE /\ UNCHANGED plugin_steam_id
            /\ auth_run' = [profile |-> [exc |-> NoneValue, profile_url |-> "profile"],
                            profile_data |-> outcome,
                            ret |-> IF outcome.exc = AccessDenied
                                    THEN Raise(InvalidCredentials) ELSE Raise(outcome.exc)]
    /\ UNCHANGED <<own_friends, plugin_op, plugin_run, own_games>>

\* what prepare_game_times_context and prepare_achievements_context return
game_times_context ==
    LET done == get_game_times_dict_result(own_games, local_config)
    IN IF done.exc = NoneValue THEN Return(done.game_times) ELSE Raise(done.exc)

\* a gated operation up to its first await, or to its end
plugin_call(op) ==
    /\ plugin_op = NoneValue
    /\ IF steam_id_is_none(plugin_steam_id)
       THEN /\ plugin_run' = PluginRun(op, <<>>, Raise(AuthenticationRequired))
            /\ UNCHANGED plugin_op
       ELSE IF op = "get_owned_games"
       THEN /\ plugin_op' = PluginOp(op, "get_games", <<"get_games">>, <<>>)
            /\ UNCHANGED plugin_run
       ELSE IF op = "get_friends"
       THEN /\ plugin_op' = PluginOp(op, "get_friends", <<"get_friends">>, <<>>)
            /\ UNCHANGED plugin_run
       ELSE /\ plugin_run' = PluginRun(op, <<>>, game_times_context)
            /\ UNCHANGED plugin_op
    /\ UNCHANGED <<plugin_steam_id, own_friends, auth_op, auth_run, own_games>>

\* get_friends from the backend's reply on
get_friends_reply(friends) ==
    /\ plugin_op # NoneValue
    /\ plugin_op.pc = "get_friends"
    /\ own_friends' = friends
    /\ plugin_run' = PluginRun(plugin_op.op, plugin_op.requests, Return(friends))
    /\ plugin_op' = NoneValue
    /\ UNCHANGED <<plugin_steam_id, auth_op, auth_run, own_games>>

\* the ids of a list of game dicts
GameIds(games) == {games[k].appid : k \in 1..Len(games)}

\* the list of Game objects of get_owned_games
OwnedGames(games) == [k \in 1..Len(games) |-> [type |-> "Game", game_id |-> games[k].appid]]

\* the friends whose games get_steam_sharing_games asks for
SharingProfiles(friends) == SelectSeq(friends, LAMBDA f : f.shared)

\* get_owned_games from the reply of get_games on, up to the first await of
\* get_steam_sharing_games or to its end
get_owned_games_reply(games) ==
    /\ plugin_op # NoneValue
    /\ plugin_op.pc = "get_games"
    /\ IF MissingKey \in GameIds(games)
       THEN /\ plugin_run' = PluginRun(plugin_op.op, plugin_op.requests,
                                       Raise(UnknownBackendResponse))
            /\ plugin_op' = NoneValue
            /\ UNCHANGED own_games
       ELSE /\ own_games' = games
            /\ IF SharingProfiles(own_friends) = <<>>
               THEN /\ plugin_run' = PluginRun(plugin_op.op, plugin_op.requests,
                                               Return(OwnedGames(games)))
                    /\ plugin_op' = NoneValue
               ELSE /\ plugin_op' = PluginOp(plugin_op.op, "sharing",
                                             Append(plugin_op.requests, "get_games"),
                                             SharingProfiles(own_friends))
                    /\ UNCHANGED plugin_run
    /\ UNCHANGED <<plugin_steam_id, own_friends, auth_op, auth_run>>

\* the loop of get_steam_sharing_games over a friend's games: a game without
\* appid raises KeyError, a game the user does not own reaches
\* self._ither_games, an attribute SteamPlugin does not have
RECURSIVE sharing_loop(_, _)
sharing_loop(othergames, owngames) ==
    IF othergames = <<>> THEN NoneValue
    ELSE IF Head(othergames).appid = MissingKey THEN KeyError
    ELSE IF Head(othergames).appid \notin owngames THEN AttributeError
    ELSE sharing_loop(Tail(othergames), owngames)

\* get_steam_sharing_games from the reply for a friend's games on
sharing_reply(othergames) ==
    /\ plugin_op # NoneValue
    /\ plugin_op.pc = "sharing"
    /\ LET exc == sharing_loop(othergames, GameIds(own_games))
           rest == Tail(plugin_op.profiles)
       IN IF exc # NoneValue
          THEN /\ plugin_run' = PluginRun(plugin_op.op, plugin_op.requests,
                                          Raise(IF exc = KeyError
                                                THEN UnknownBackendResponse ELSE exc))
               /\ plugin_op' = NoneValue
          ELSE IF rest = <<>>
          THEN /\ plugin_run' = PluginRun(plugin_op.op, plugin_op.requests,
                                          Return(OwnedGames(own_games)))
               /\ plugin_op' = NoneValue
          ELSE /\ plugin_op' = [plugin_op EXCEPT !.profiles = rest,
                                                 !.requests = Append(@, "get_games")]
               /\ UNCHANGED plugin_run
    /\ UNCHANGED <<plugin_steam_id, own_friends, auth_op, auth_run, own_games>>

GateInit ==
    /\ ClientInit
    /\ steam_id = None
    /\ inbox = NoneValue
    /\ LegacyIdle
    /\ LicenseIdle
    /\ FriendsIdle
    /\ PluginIdle
    /\ SessionIdle

GateNext ==
    /\ \/ do_auth_call
       \/ \E outcome \in ProfileOutcomes : do_auth_profile(outcome)
       \/ \E outcome \in ProfileDataOutcomes : do_auth_profile_data(outcome)
       \/ \E op \in GatedOps : plugin_call(op)
       \/ \E friends \in FriendLists : get_friends_reply(friends)
       \/ \E games \in BackendGameLists : get_owned_games_reply(games)
       \/ \E games \in BackendGameLists : sharing_reply(games)
    /\ UNCHANGED <<local_config, game_times_run>>
    /\ UNCHANGED <<authVars, inbox, legacyVars, licenseVars, friendsVars, pluginVars, jobVars,
                   statsVars, startupVars, machineVars, translationVars, collectionVars,
                   translate_run>>

SpecGate == GateInit /\ [][GateNext]_vars

(***************************************************************************)
(* Both clients: the translations handler.                                 *)
(***************************************************************************)
MaxTranslationMsgs == 4

\* the app ids of the messages; 0 is the app id Python takes for false
AppIds == {0, 1, 2}

\* the translations argument: None by default, or a list of translation objects
Translation(text) == [type |-> "translation", text |-> text]
TranslationArgs ==
    {NoneValue, List(<<>>), List(<<Translation("t1")>>),
     List(<<Translation("t2"), Translation("t1")>>)}

\* how Python's `and` takes the translations argument
Truthy(translations) == translations # NoneValue /\ translations.items # <<>>

\* a handler that stores no placeholder
translations_handler_no_placeholder(cache, appid, translations) ==
    IF appid # 0 /\ Truthy(translations)
    THEN [cache |-> DictSet(cache, appid, Head(translations.items)), requests |-> <<>>]
    ELSE IF appid \notin DOMAIN cache
    THEN [cache |-> cache, requests |-> <<appid>>]
    ELSE [cache |-> cache, requests |-> <<>>]

\* steam_network ProtocolClient._translations_handler on a cache: the cache it
\* leaves and the get_presence_localization calls it makes
translations_handler_result(cache, appid, translations) ==
    IF appid # 0 /\ Truthy(translations)
    THEN [cache |-> DictSet(cache, appid, Head(translations.items)), requests |-> <<>>]
    ELSE IF appid \notin DOMAIN cache
    THEN [cache |-> DictSet(cache, appid, NoneValue), requests |-> <<appid>>]
    ELSE [cache |-> cache, requests |-> <<>>]

\* legacy ProtocolClient._translations_handler on a cache
legacy_translations_handler_result(cache, appid, translations) ==
    IF appid # 0 /\ Truthy(translations)
    THEN [cache |-> DictSet(cache, appid, Head(translations.items)), requests |-> <<>>]
    ELSE IF appid \notin DOMAIN cache
    THEN [cache |-> DictSet(cache, appid, NoneValue), requests |-> <<appid>>]
    ELSE [cache |-> cache, requests |-> <<>>]

\* a translation message routed to a client's handler
translations_handler(client, appid, translations) ==
    /\ translation_msgs < MaxTranslationMsgs
    /\ translation_msgs' = translation_msgs + 1
    /\ LET cache == translations_cache[client]
           done == IF client = "steam_network"
                   THEN translations_handler_result(cache, appid, translations)
                   ELSE legacy_translations_handler_result(cache, appid, translations)
       IN /\ translations_cache' = [translations_cache EXCEPT ![client] = done.cache]
          /\ presence_requests' = [presence_requests EXCEPT ![client] = @ \o done.requests]
          /\ translations_run' = [client |-> client, appid |-> appid,
                                  translations |-> translations, before |-> cache,
                                  requests |-> done.requests]

TranslationsInit ==
    /\ ClientInit
    /\ steam_id = None
    /\ inbox = NoneValue
    /\ LegacyIdle
    /\ LicenseIdle
    /\ FriendsIdle
    /\ PluginIdle
    /\ SessionIdle

TranslationsNext ==
    /\ \E client \in Clients, appid \in AppIds, translations \in TranslationArgs :
          translations_handler(client, appid, translations)
    /\ UNCHANGED <<authVars, inbox, legacyVars, licenseVars, friendsVars, pluginVars, jobVars,
                   statsVars, timesVars, startupVars, machineVars, gateVars, collectionVars,
                   translate_run>>

SpecTranslations == TranslationsInit /\ [][TranslationsNext]_vars

(***************************************************************************)
(* Both clients: retrieve_collections, cut at its await of the collections *)
(* event.  An Event that is set lets wait() return without suspending; set *)
(* wakes every call inside wait(), and the woken calls run on in the order *)
(* they started to wait.                                                   *)
(***************************************************************************)
MaxRetrievals == 3
MaxEventSets == 2

CollectionsJob == [job_name |-> "import_collections"]

\* collections as sets of <<collection, game>> pairs
EmptyCollections == {}
CollectionData == {EmptyCollections, {<<"favorite", "g1">>}}

\* a call that leaves the event and the store as they are
collections_left_as_is(c) == c

\* event.clear() and collections = dict()
collections_after_return(c) == [event |-> FALSE, collections |-> EmptyCollections]

\* a call inside event.wait()
Waiter(client, id) ==
    [id |-> id, floor |-> last_return[client], woken |-> FALSE, data |-> EmptyCollections,
     peers |-> 0, wake_sets |-> 0]

\* a call that returned: what it returned, the store it copied, and how often
\* the event had been set by then
CollectionRun(client, waiter) ==
    [client |-> client, id |-> waiter.id, floor |-> waiter.floor, woken |-> waiter.woken,
     data |-> waiter.data, peers |-> waiter.peers, wake_sets |-> waiter.wake_sets,
     store |-> collections[client].collections, sets |-> collection_sets[client],
     ret |-> collections[client].collections]

\* the copy, event.clear() and the reset of the store, up to the return
retrieve_collections_return(client, waiter) ==
    /\ collection_runs' = Append(collection_runs, CollectionRun(client, waiter))
    /\ collections' = [collections EXCEPT ![client] = collections_after_return(@)]
    /\ last_return' = [last_return EXCEPT ![client] = collection_sets[client]]

\* retrieve_collections up to event.wait(), or to its end when the event is set
retrieve_collections_call(client) ==
    /\ retrievals < MaxRetrievals
    /\ retrievals' = retrievals + 1
    /\ job_list' = [job_list EXCEPT ![client] = Append(@, CollectionsJob)]
    /\ IF collections[client].event
       THEN /\ retrieve_collections_return(client, Waiter(client, retrievals + 1))
            /\ UNCHANGED waiters
       ELSE /\ waiters' = [waiters EXCEPT ![client] =
                              Append(@, Waiter(client, retrievals + 1))]
            /\ UNCHANGED <<collections, last_return, collection_runs>>
    /\ UNCHANGED <<collection_sets, job_run>>

\* steam_network ProtocolClient.retrieve_collections
retrieve_collections == retrieve_collections_call("steam_network")

\* legacy ProtocolClient.retrieve_collections
legacy_retrieve_collections == retrieve_collections_call("protocol")

\* a woken call runs on from event.wait() to its return
retrieve_collections_resume(client) ==
    /\ waiters[client] # <<>>
    /\ Head(waiters[client]).woken
    /\ retrieve_collections_return(client, Head(waiters[client]))
    /\ waiters' = [waiters EXCEPT ![client] = Tail(@)]
    /\ UNCHANGED <<collection_sets, retrievals, job_list, job_run>>

\* the protobuf client stores the collections it received and sets the event
collections_event_set(client, data) ==
    /\ collection_sets["steam_network"] + collection_sets["protocol"] < MaxEventSets
    /\ collection_sets' = [collection_sets EXCEPT ![client] = @ + 1]
    /\ collections' = [collections EXCEPT ![client] = [event |-> TRUE, collections |-> data]]
    /\ LET waiting == {k \in 1..Len(waiters[client]) : ~waiters[client][k].woken}
       IN waiters' = [waiters EXCEPT ![client] =
             [k \in 1..Len(@) |->
                 IF @[k].woken THEN @[k]
                 ELSE [@[k] EXCEPT !.woken = TRUE, !.data = data,
                                   !.peers = Cardinality(waiting),
                                   !.wake_sets = collection_sets[client] + 1]]]
    /\ UNCHANGED <<last_return, retrievals, collection_runs, job_list, job_run>>

CollectionsInit ==
    /\ ClientInit
    /\ steam_id = None
    /\ inbox = NoneValue
    /\ LegacyIdle
    /\ LicenseIdle
    /\ FriendsIdle
    /\ PluginIdle
    /\ SessionIdle

CollectionsNext ==
    /\ \/ retrieve_collections
       \/ legacy_retrieve_collections
       \/ \E client \in Clients : retrieve_collections_resume(client)
       \/ \E client \in Clients, data \in CollectionData : collections_event_set(client, data)
    /\ UNCHANGED <<authVars, inbox, legacyVars, licenseVars, friendsVars, pluginVars,
                   statsVars, timesVars, startupVars, machineVars, gateVars, translationVars,
                   translate_run>>

SpecCollections == CollectionsInit /\ [][CollectionsNext]_vars

(***************************************************************************)
(* Both clients: translate_error called on any result code.                *)
(***************************************************************************)
\* a call of the steam_network client's translate_error
translate_error_call(result) ==
    translate_run' = [translate_run EXCEPT !["steam_network"] =
                         [result |-> result, error |-> translate_error(result)]]

\* a call of the legacy client's translate_error
legacy_translate_error_call(result) ==
    translate_run' = [translate_run EXCEPT !["protocol"] =
                         [result |-> result, error |-> legacy_translate_error(result)]]

TranslateInit ==
    /\ ClientInit
    /\ steam_id = None
    /\ inbox = NoneValue
    /\ LegacyIdle
    /\ LicenseIdle
    /\ FriendsIdle
    /\ PluginIdle
    /\ SessionIdle

TranslateNext ==
    /\ \/ \E result \in EResult : translate_error_call(result)
       \/ \E result \in EResult : legacy_translate_error_call(result)
    /\ UNCHANGED <<authVars, inbox, legacyVars, licenseVars, friendsVars, pluginVars, jobVars,
                   statsVars, timesVars, startupVars, machineVars, gateVars, translationVars,
                   collectionVars>>

SpecTranslate == TranslateInit /\ [][TranslateNext]_vars

(***************************************************************************)
(* Properties of the authentication exchanges.                             *)
(***************************************************************************)
InvalidAuthDataCodes ==
    {"InvalidPassword", "InvalidSteamID", "AccountNotFound", "InvalidLoginAuthCode",
     "TwoFactorCodeMismatch", "TwoFactorActivationCodeMismatch"}

SoftLoginCodes ==
    {"OK", "AccountLogonDenied", "AccountLoginDeniedNeedTwoFactor"} \cup InvalidAuthDataCodes

\* caller c has run operation op to its end
Finished(c, op) == callers[c].pc = "done" /\ callers[c].op = op

\* C1: authenticate_password of the RSA flow, finished on a login future that
\* holds result code r: OK returns the future's polling data with the caller's
\* auth-lost callback registered, AccountLogonDenied returns
\* EmailTwoFactorInputRequired, AccountLoginDeniedNeedTwoFactor returns
\* PhoneTwoFactorInputRequired, the six credential codes return InvalidAuthData,
\* and none of these nine codes raises.
C1_PasswordResultMapping ==
    \A c \in Callers :
        Finished(c, "authenticate_password") =>
            LET f == futures[callers[c].fut]
                ret == callers[c].ret
            IN /\ f.result = "OK" =>
                    /\ ret = Return(f.data)
                    /\ f.data.type = "SteamPollingData"
                    /\ auth_lost_handler = callers[c].handler
               /\ f.result = "AccountLogonDenied" =>
                    ret = Return(Action("EmailTwoFactorInputRequired"))
               /\ f.result = "AccountLoginDeniedNeedTwoFactor" =>
                    ret = Return(Action("PhoneTwoFactorInputRequired"))
               /\ f.result \in InvalidAuthDataCodes =>
                    ret = Return(Action("InvalidAuthData"))
               /\ f.result \in SoftLoginCodes => ret.tag = "return"

C1_Witness ==
    \E c \in Callers :
        /\ Finished(c, "authenticate_password")
        /\ futures[callers[c].fut].result = "AccountLoginDeniedNeedTwoFactor"
        /\ callers[c].ret = Return(Action("PhoneTwoFactorInputRequired"))

\* C2: authenticate_password finished on a login future whose result code is
\* none of the nine codes of C1 has raised translate_error(result); and no call
\* of authenticate_password, finished or not, has sent more than one log-on
\* request, a finished one exactly one.
C2_HardFailureNoRetry ==
    \A c \in Callers :
        callers[c].op = "authenticate_password" =>
            /\ callers[c].nsent <= 1
            /\ callers[c].pc \in {"waiting", "done"} => callers[c].nsent = 1
            /\ Finished(c, "authenticate_password")
                    /\ futures[callers[c].fut].result \notin SoftLoginCodes =>
                 callers[c].ret = Raise(translate_error(futures[callers[c].fut].result))

C2_Witness ==
    \E c \in Callers :
        /\ Finished(c, "authenticate_password")
        /\ futures[callers[c].fut].result = "TryAnotherCM"
        /\ callers[c].ret = Raise(Error("BackendNotAvailable", "TryAnotherCM"))
        /\ callers[c].nsent = 1

\* the key reply that resolved the future now in the key slot
KeySlotJustResolved ==
    /\ handled.kind = "rsa"
    /\ handler_exc = NoExc
    /\ rsa_future # 0
    /\ futures[rsa_future].done

\* C5: get_rsa_public_key finished on a key future with result OK returns
\* (PasswordRequired, the future's key), with any other result code returns
\* (InvalidAuthData, no key), and never raises; the key a reply resolves the
\* future with is built from the reply's modulus, exponent and timestamp when
\* the reply's result is OK and is absent otherwise.
C5_KeyExchangeResult ==
    /\ \A c \in Callers :
          Finished(c, "get_rsa_public_key") =>
             LET f == futures[callers[c].fut] IN
             /\ callers[c].ret.tag = "return"
             /\ f.result = "OK" =>
                  /\ callers[c].ret.value =
                        [type |-> "tuple", action |-> "PasswordRequired", key |-> f.data]
                  /\ f.data.type = "SteamPublicKey"
             /\ f.result # "OK" =>
                  callers[c].ret.value =
                        [type |-> "tuple", action |-> "InvalidAuthData", key |-> NoneValue]
    /\ KeySlotJustResolved =>
          futures[rsa_future].data =
             IF handled.result = "OK"
                THEN [type |-> "SteamPublicKey", n |-> handled.mod, e |-> handled.exp,
                      timestamp |-> handled.timestamp]
                ELSE NoneValue

C5_Witness ==
    \E c \in Callers :
        /\ Finished(c, "get_rsa_public_key")
        /\ futures[callers[c].fut].result = "AccountNotFound"
        /\ callers[c].ret.value.action = "InvalidAuthData"


\* the elements of a list
Range(l) == {l[i] : i \in 1..Len(l)}

\* the highest-priority challenge among the guard types present:
\* DeviceCode > EmailCode > DeviceConfirmation > None, else InvalidAuthData
HighestPriority(types) ==
    IF "GuardType_DeviceCode" \in types THEN "PhoneTwoFactorInputRequired"
    ELSE IF "GuardType_EmailCode" \in types THEN "EmailTwoFactorInputRequired"
    ELSE IF "GuardType_DeviceConfirmation" \in types THEN "PhoneTwoFactorConfirmRequired"
    ELSE IF "GuardType_None" \in types THEN "NoActionRequired"
    ELSE "InvalidAuthData"

\* the login reply in the inbox has resolved the future now in the login slot
LoginSlotJustResolved ==
    /\ handled.kind = "login"
    /\ handler_exc = NoExc
    /\ login_future # 0
    /\ futures[login_future].done

\* C3: the challenge _login_handler resolves for an OK login reply is the
\* highest-priority guard type present in the reply's allowed confirmations
\* (DeviceCode > EmailCode > DeviceConfirmation > None), whatever their order
\* and repetitions; with no recognised type it is InvalidAuthData.
C3_ChallengePriority ==
    LoginSlotJustResolved /\ inbox.result = "OK" =>
        futures[login_future].data.auth_method =
            HighestPriority(Range(inbox.allowed_confirmations))

C3_Witness ==
    /\ LoginSlotJustResolved
    /\ inbox.result = "OK"
    /\ inbox.allowed_confirmations =
          <<"GuardType_DeviceConfirmation", "GuardType_EmailCode", "GuardType_DeviceCode">>
    /\ futures[login_future].data.auth_method = "PhoneTwoFactorInputRequired"


\* the error kinds translate_error returns
TranslatedKinds ==
    {"InvalidCredentials", "NetworkError", "BackendNotAvailable", "BackendTimeout",
     "TemporaryBlocked", "Banned", "AccessDenied", "BackendError", "UnknownError"}

\* this step is a run of the handler of the given kind of message
HandlerRun(kind) == nmsgs' = nmsgs + 1 /\ handled'.kind = kind

\* C4: a login reply routed while the login slot is empty makes _login_handler
\* raise the translated error of the reply's result code, and changes neither
\* the user-info cache nor any future.
C4_UnsolicitedLoginReplyRaises ==
    [][HandlerRun("login") /\ login_future = 0 =>
          /\ handler_exc'.kind \in TranslatedKinds
          /\ handler_exc'.result = handled'.result
          /\ UNCHANGED <<steam_id, futures, rsa_future, login_future>>]_vars

\* C6: once an authentication has finished on result OK, a log-off
\* notification calls the registered auth-lost callback exactly once, with the
\* translated error of the notification's result code.
C6_LogOffInvokesCallback ==
    [][HandlerRun("log_off") /\ authenticated =>
          /\ Len(lost_log') = Len(lost_log) + 1
          /\ lost_log'[Len(lost_log')].handler = auth_lost_handler
          /\ lost_log'[Len(lost_log')].error.kind \in TranslatedKinds
          /\ lost_log'[Len(lost_log')].error.result = handled'.result]_vars

\* caller c is suspended on a future no reply has resolved
Suspended(c) ==
    /\ callers[c].pc = "waiting"
    /\ ~futures[callers[c].fut].done

\* C8: a caller suspended on its reply future when the session is closed is
\* eventually resumed with a failure.
C8_CloseUnblocksCallers ==
    \A c \in Callers :
        (closed /\ Suspended(c)) ~> (callers[c].pc = "done" /\ callers[c].ret.tag = "raise")

\* a and b run the same operation, b's call came second, and no reply had
\* resolved a's future
SecondCall(a, b) ==
    /\ a # b
    /\ callers[a].op # None
    /\ callers[a].op = callers[b].op
    /\ callers[a].own < callers[b].own
    /\ ~futures[callers[a].own].done

\* C9 as stated: after a second call of the same operation before the first
\* call's reply, the reply that resolves the second call's future does not
\* resume the first caller.
C9_FirstCallerNeverResumed ==
    \A a, b \in Callers :
        SecondCall(a, b) => ~(callers[a].pc = "done" /\ callers[a].fut = callers[b].own)

\* the futures created for the given exchange
FuturesOf(kind) == {i \in DOMAIN futures : futures[i].kind = kind}

\* the newest of a set of futures, 0 if there is none
Newest(fs) == IF fs = {} THEN 0 ELSE CHOOSE i \in fs : \A j \in fs : j <= i

SlotOf(op) == IF op = "get_rsa_public_key" THEN rsa_future ELSE login_future

\* C9 as amended: each exchange's slot holds the newest future created for it;
\* a reply resolves only a future held by a slot; a caller awaits the future
\* its slot holds when its send returns, its own or the one of a later call;
\* and a caller awaiting a future that left the slot unresolved is not resumed.
C9_SingleSlotOverwrite ==
    /\ [](/\ rsa_future = Newest(FuturesOf("rsa"))
          /\ login_future = Newest(FuturesOf("login"))
          /\ \A c \in Callers : callers[c].pc \in {"waiting", "done"} =>
                callers[c].fut >= callers[c].own)
    /\ [][/\ \A i \in DOMAIN futures :
                ~futures[i].done /\ futures'[i].done => i \in {rsa_future, login_future}
          /\ \A c \in Callers :
                /\ callers[c].pc = "sending" /\ callers'[c].pc = "waiting" =>
                      callers'[c].fut = SlotOf(callers[c].op)
                /\ callers[c].pc = "waiting" /\ ~futures[callers[c].fut].done
                      /\ callers[c].fut # SlotOf(callers[c].op) =>
                      callers'[c].pc = "waiting"]_vars

\* the second call came while the first caller already awaited its own future:
\* the reply resumed the second caller only
C9_Witness ==
    \E a, b \in Callers :
        /\ SecondCall(a, b)
        /\ Suspended(a)
        /\ callers[a].fut = callers[a].own
        /\ callers[b].pc = "done"
        /\ callers[b].fut = callers[b].own


\* C7: authenticate_token finished on a login future with result OK has
\* registered the caller's auth-lost callback and returns NoActionRequired,
\* and only once account info has been retrieved; with InvalidPassword it has
\* raised InvalidCredentials; with any other result code it has raised
\* translate_error(result); and a call that ends on a non-OK result leaves the
\* auth-lost callback as it was.
C7_TokenResultBranches ==
    /\ [](\A c \in Callers :
            callers[c].op = "authenticate_token" =>
              /\ callers[c].pc \in {"waiting_info", "done"} /\ callers[c].result = "OK" =>
                    auth_lost_handler = callers[c].handler
              /\ callers[c].pc = "done" =>
                    LET r == futures[callers[c].fut].result IN
                    /\ r = "OK" =>
                          /\ callers[c].ret = Return(Action("NoActionRequired"))
                          /\ account_info_retrieved
                    /\ r = "InvalidPassword" =>
                          callers[c].ret = Raise(Error("InvalidCredentials", r))
                    /\ r \notin {"OK", "InvalidPassword"} =>
                          callers[c].ret = Raise(legacy_translate_error(r)))
    /\ [][\A c \in Callers :
            /\ callers[c].op = "authenticate_token"
            /\ callers[c].pc = "waiting"
            /\ callers'[c].pc = "done"
            => /\ auth_lost_handler' = auth_lost_handler
               /\ callers'[c].ret.tag = "raise"]_vars

C7_Witness ==
    \E c \in Callers :
        /\ Finished(c, "authenticate_token")
        /\ futures[callers[c].fut].result = "AccountLogonDenied"
        /\ callers[c].ret = Raise(Error("UnknownError", "AccountLogonDenied"))
        /\ auth_lost_handler = None


\* C10: a run of the license handler resets the games cache (a full resync:
\* the associations are cleared and package info is requested for the whole
\* batch) if and only if the batch's set of distinct package ids differs from
\* the package ids the cache held before and has fewer than 12000 elements;
\* a batch with 12000 or more distinct package ids never resets it.
C10_FullResyncCondition ==
    [][nbatches' = nbatches + 1 =>
         LET ids == PackageIdsOf(batch') IN
         /\ reset_count' \in {reset_count, reset_count + 1}
         /\ reset_count' = reset_count + 1
               <=> (ids # package_ids /\ Size(ids) < BulkImportThreshold)
         /\ reset_count' = reset_count + 1 =>
               /\ resolved' = {}
               /\ requested' = batch'
               /\ package_ids' = ids
         /\ reset_count' = reset_count =>
               /\ resolved' = resolved
               /\ requested' = NotResolved(batch', resolved)
         /\ Size(ids) >= BulkImportThreshold => reset_count' = reset_count]_vars

\* a first batch below the threshold has reset the cache, and a second, with
\* 12000 distinct package ids or more, has not
C10_Witness ==
    /\ nbatches = 2
    /\ reset_count = 1
    /\ Size(PackageIdsOf(batch)) >= BulkImportThreshold
    /\ Cardinality(PackageIdsOf(batch).small) > 0


\* C11: a run of the license handler that resets the cache clears the
\* app/package associations, marks every license of the batch as importing and
\* requests package info for every license of the batch, the licenses whose
\* package was resolved before the batch included.
C11_FullResyncImportsWholeBatch ==
    [](nbatches > 0 /\ license_run.reset =>
          /\ importing = batch
          /\ requested = batch
          /\ PackageIdsOf(requested) = PackageIdsOf(batch)
          /\ package_ids = PackageIdsOf(batch))
    /\ [][nbatches' = nbatches + 1 /\ license_run'.reset => resolved' = {}]_vars

\* the cache held {1} and package 1 was resolved; a batch for packages 1 and 2
\* has reset it and requested both
C11_Witness ==
    /\ nbatches > 0
    /\ license_run.reset
    /\ license_run.cached = [small |-> {1}, bulk |-> 0]
    /\ license_run.resolved_packages = {1}
    /\ PackageIdsOf(batch) = [small |-> {1, 2}, bulk |-> 0]
    /\ PackageIdsOf(requested).small = {1, 2}
    /\ resolved = {}

\* C12: a run of the license handler that does not reset the cache starts the
\* import of, and requests package info for, exactly the licenses of the batch
\* whose package was not resolved when the batch arrived, and clears no
\* association.
C12_CatchUpSkipsResolved ==
    [](nbatches > 0 /\ ~license_run.reset =>
          /\ requested = NotResolved(batch, license_run.resolved_packages)
          /\ importing = requested
          /\ PackageIdsOf(requested).small \cap license_run.resolved_packages = {}
          /\ PackageIdsOf(requested).small =
                PackageIdsOf(batch).small \ license_run.resolved_packages)
    /\ [][nbatches' = nbatches + 1 /\ ~license_run'.reset =>
             /\ resolved' = resolved
             /\ reset_count' = reset_count]_vars

\* a batch with its package-id set unchanged arrived while one of its two
\* packages was resolved: only the other one was requested
C12_Witness ==
    /\ nbatches > 0
    /\ ~license_run.reset
    /\ license_run.cached = PackageIdsOf(batch)
    /\ license_run.resolved_packages = {1}
    /\ PackageIdsOf(batch).small = {1, 2}
    /\ requested.small = <<2>>
    /\ resolved = {1}

\* the cache as the last run of the handler left it: no package-info reply since
NoReplySince ==
    resolved = IF license_run.reset THEN {} ELSE license_run.resolved_packages

\* C13: the same license batch, of fewer than 12000 distinct package ids,
\* delivered a second time with no package-info reply in between does not reset
\* the cache and leaves the resolved packages as they were.
C13_RepeatedBatchIdempotent ==
    [][/\ nbatches > 0
       /\ nbatches' = nbatches + 1
       /\ batch' = batch
       /\ Size(PackageIdsOf(batch)) < BulkImportThreshold
       /\ NoReplySince
       => /\ ~license_run'.reset
          /\ reset_count' = reset_count
          /\ resolved' = resolved
          /\ package_ids' = package_ids]_vars

\* a batch that reset the cache was delivered again
C13_Witness ==
    /\ nbatches = 2
    /\ reset_count = 1
    /\ ~license_run.reset
    /\ license_run.cached = PackageIdsOf(batch)
    /\ Len(batch.small) > 0
    /\ Size(PackageIdsOf(batch)) < BulkImportThreshold


\* the groups of result codes translate_error tests, in its order, each with
\* the error kind it returns for them
ErrorGroups ==
    {[kind |-> "InvalidCredentials", codes |-> InvalidCredentialsCodes],
     [kind |-> "NetworkError", codes |-> NetworkErrorCodes],
     [kind |-> "BackendNotAvailable", codes |-> BackendNotAvailableCodes],
     [kind |-> "BackendTimeout", codes |-> {"Timeout"}],
     [kind |-> "TemporaryBlocked", codes |-> TemporaryBlockedCodes],
     [kind |-> "Banned", codes |-> {"Banned"}],
     [kind |-> "AccessDenied", codes |-> AccessDeniedCodes],
     [kind |-> "BackendError", codes |-> BackendErrorCodes]}

\* the errors a finished call has raised and the failed handler runs have left
RaisedErrors ==
    {callers[c].ret.value : c \in {d \in Callers : callers[d].ret.tag = "raise"}}
        \cup {lost_log[i].error : i \in DOMAIN lost_log}

\* C14: translate_error, of either client, gives every non-OK result code
\* exactly one error kind of the nine: the code groups are pairwise disjoint, a
\* code of a group gets the group's kind, a code of no group gets UnknownError,
\* and every error a call has raised for a non-OK code is of these kinds.
C14_TranslateErrorTotal ==
    /\ \A g, h \in ErrorGroups : g # h => g.codes \cap h.codes = {}
    /\ \A result \in EResult \ {"OK"} :
          /\ translate_error(result).kind \in TranslatedKinds
          /\ translate_error(result).result = result
          /\ legacy_translate_error(result) = translate_error(result)
          /\ \A g \in ErrorGroups :
                result \in g.codes => translate_error(result).kind = g.kind
          /\ (\A g \in ErrorGroups : result \notin g.codes) =>
                translate_error(result).kind = "UnknownError"
    /\ \A e \in RaisedErrors : e.result # "OK" => e.kind \in TranslatedKinds

\* authenticate_password has raised the translation of a code no group lists
C14_Witness ==
    \E c \in Callers :
        /\ callers[c].pc = "done"
        /\ callers[c].result = "Expired"
        /\ callers[c].ret = Raise(Error("UnknownError", "Expired"))
        /\ \A g \in ErrorGroups : "Expired" \notin g.codes


\* C15: translate_error is never called with OK: no run of a handler ends in
\* the failure of its assertion, and no call raises it.
C15_TranslateErrorNeverGetsOK ==
    /\ ~(handler_exc.kind = "AssertionError" /\ handler_exc.result = "OK")
    /\ \A c \in Callers : callers[c].ret # Raise(Error("AssertionError", "OK"))


\* this step is a run of the relationship handler
RelationshipRun == nrelationships' = nrelationships + 1

\* C18: the friends cache holds only users whose relationship declared last
\* is Friend, and an incremental update that declares any other relationship
\* for a user leaves that user out of the cache.
C18_OnlyFriendsCached ==
    /\ [](\A u \in friends_cache : declared[u] = "Friend")
    /\ [][RelationshipRun /\ relationship_run'.incremental =>
             \A u \in DOMAIN relationship_run'.friends :
                relationship_run'.friends[u] # "Friend" => u \notin friends_cache']_vars

\* C19: an incremental update that declares None for a cached user leaves the
\* user out of the cache, and a snapshot leaves in the cache exactly the users
\* it declares as Friend.
C19_NoneRemovesSnapshotReplaces ==
    [][RelationshipRun =>
          LET friends == relationship_run'.friends IN
          IF relationship_run'.incremental
            THEN \A u \in DOMAIN friends :
                    u \in friends_cache /\ friends[u] = "None_" => u \notin friends_cache'
            ELSE friends_cache' = {u \in DOMAIN friends : friends[u] = "Friend"}]_vars


\* the fingerprint of a game time: its last played time and its minutes played
CurrentFingerprint(game_time) ==
    [last_played_time |-> game_time.last_played_time,
     time_played |-> game_time.time_played]

AllFingerprints == {CurrentFingerprint(game_time) : game_time \in GameTimes}

\* this step ends a call of get_unlocked_achievements
CallReturns == returned' # returned

\* C16: for every game whose last write was update(game_id, A, F), get with F
\* gives exactly A and get with any other fingerprint misses; and a call of
\* get_unlocked_achievements that returns without a backend request, for a
\* game with minutes played, returns the stored list of an entry whose
\* fingerprint is the one of the game's current last played time and minutes.
C16_CacheHitOnlyOnSameFingerprint ==
    /\ [](\A game_id \in Games :
            last_write[game_id] # NoneValue =>
              \A fingerprint \in AllFingerprints :
                 cache_get(achievements_cache, game_id, fingerprint) =
                    IF fingerprint = last_write[game_id].fingerprint
                      THEN last_write[game_id].achievements
                      ELSE NoneValue)
    /\ [][CallReturns /\ returned'.consulted /\ ~returned'.fetched =>
             LET entry == achievements_cache[returned'.game_id] IN
             /\ entry # NoneValue
             /\ entry.fingerprint = CurrentFingerprint(returned'.game_time)
             /\ entry = last_write[returned'.game_id]
             /\ returned'.ret = Return(entry.achievements)]_vars
    /\ [][CallReturns /\ returned'.fetched /\ returned'.ret.tag = "return" =>
             /\ achievements_cache'[returned'.game_id] =
                   [achievements |-> returned'.ret.value,
                    fingerprint |-> CurrentFingerprint(returned'.game_time)]
             /\ last_write'[returned'.game_id] = achievements_cache'[returned'.game_id]]_vars

\* a call was served from the cache while the game's entry is the one written
\* for the same last played time and minutes
C16_Witness ==
    /\ returned # NoneValue
    /\ returned.consulted
    /\ ~returned.fetched
    /\ returned.ret = Return(List(<<"a1">>))
    /\ returned.game_time = [time_played |-> 60, last_played_time |-> 2]
    /\ last_write[returned.game_id] =
          [achievements |-> List(<<"a1">>),
           fingerprint |-> [last_played_time |-> 2, time_played |-> 60]]

\* C17: a call of get_unlocked_achievements for a game with zero minutes
\* played returns an empty list in one go: it does not consult the cache, it
\* issues no backend request, it leaves the cache, the cache-updated flag and
\* the semaphore alone, and no such call ever waits for the backend.
C17_ZeroPlaytimeShortCut ==
    /\ [](\A call \in BagToSet(calls) : call.game_time.time_played # 0)
    /\ [](returned # NoneValue /\ returned.game_time # NoneValue =>
            (returned.game_time.time_played = 0 =>
               /\ returned.ret = Return(List(<<>>))
               /\ ~returned.consulted
               /\ ~returned.fetched))
    /\ [][CallReturns /\ returned'.game_time # NoneValue =>
            (returned'.game_time.time_played = 0 =>
               UNCHANGED <<achievements_cache, achievements_cache_updated,
                           achievements_semaphore, calls, last_write>>)]_vars

\* a call for a game with no minutes played returned while the cache holds an
\* entry for that game
C17_Witness ==
    /\ returned # NoneValue
    /\ returned.game_time # NoneValue
    /\ returned.game_time.time_played = 0
    /\ returned.ret = Return(List(<<>>))
    /\ achievements_cache[returned.game_id] # NoneValue
    /\ ~achievements_cache_updated

\* the backend achievement requests in flight
InFlight ==
    LET requesting == {call \in BagToSet(calls) : call.pc = "requesting"}
    IN BagCardinality([call \in requesting |-> CopiesIn(call, calls)])

\* C20: at most 20 backend achievement requests are in flight at any moment,
\* however many calls of get_unlocked_achievements are under way.
C20_AtMostTwentyInFlight ==
    /\ InFlight <= 20
    /\ InFlight = AchievementsConcurrency - achievements_semaphore

\* twenty requests are in flight and a further call waits for the semaphore
C20_Witness ==
    /\ InFlight = 20
    /\ \E call \in BagToSet(calls) : call.pc = "acquiring"
    /\ achievements_semaphore = 0


\* the watched call, for g2, waiting for the semaphore and holding it
WatchedCall(pc) ==
    Call("g2", BurstGameTime,
         [last_played_time |-> BurstGameTime.last_played_time,
          time_played |-> BurstGameTime.time_played], pc)

\* C21: a call that waits for the semaphore while 20 requests are in flight
\* eventually starts its request, provided every request in flight ends; a
\* request that ends with a failure gives its slot back, so the free slots and
\* the requests in flight always add up to 20.
C21_WaitingRequestStarts ==
    /\ (CopiesIn(WatchedCall("acquiring"), calls) > 0 /\ InFlight = 20)
          ~> (CopiesIn(WatchedCall("requesting"), calls) > 0)
    /\ [](achievements_semaphore + InFlight = 20)
    /\ [][BagCardinality(calls') < BagCardinality(calls) =>
             achievements_semaphore' = achievements_semaphore + 1]_vars

\* the watched call waits at the full semaphore after a request has failed
C21_Witness ==
    /\ CopiesIn(WatchedCall("acquiring"), calls) > 0
    /\ InFlight = 20
    /\ achievements_semaphore = 0
    /\ returned # NoneValue
    /\ returned.ret.tag = "raise"

(***************************************************************************)
(* Properties of job submission.                                           *)
(***************************************************************************)
\* the jobs a submission is to add, in their order
SubmittedJobs(run) ==
    IF run.job_name = "import_game_stats"
    THEN [i \in 1..Len(run.game_ids) |-> StatsJob(run.game_ids[i])]
    ELSE <<TimesJob>>

\* C22: a job submission returns at once, leaving behind the list it found
\* with its own jobs after it: one import_game_stats job per given game id
\* in the order of the ids, or one import_game_times job; no queued job of
\* either client is removed or moved
C22_SubmissionAppendsInOrder ==
    job_run # NoneValue =>
        job_list = [job_run.before EXCEPT ![job_run.client] = @ \o SubmittedJobs(job_run)]

C22_Witness ==
    /\ job_run # NoneValue
    /\ job_run.job_name = "import_game_stats"
    /\ job_run.before[job_run.client] # <<>>
    /\ Len(job_run.game_ids) = 2
    /\ job_run.game_ids[1] # job_run.game_ids[2]

(***************************************************************************)
(* Properties of the stats handler.                                        *)
(***************************************************************************)
\* the bits of a reply that are unlocked and have a schema entry with a name
NamedUnlocked(reply) ==
    {[block |-> reply.achievement_blocks[k], i |-> i] :
        k \in 1..Len(reply.achievement_blocks), i \in Bits} 

ExpectedAchievements(reply) ==
    {Achievement(x.block.achievement_id, x.i, x.block.unlock_time[x.i + 1],
                 DisplayName(x.block.achievement_id, x.i,
                             reply.schema[x.block.achievement_id].bits[x.i])) :
        x \in {y \in NamedUnlocked(reply) :
                 /\ y.block.unlock_time[y.i + 1] > 0
                 /\ reply.schema[y.block.achievement_id] # NoneValue
                 /\ reply.schema[y.block.achievement_id].bits[y.i] \in {"english", "plain"}}}

SeqRange(list) == {list[k] : k \in 1..Len(list)}

\* C23: a handled stats reply has updated the stats cache exactly once, with
\* exactly the achievements whose unlock time is positive and whose schema
\* entry yields a name, each with id 32 * (block id - 1) + bit index; blocks
\* with no schema entry and bits with a malformed schema entry are skipped
C23_PartialProgress ==
    stats_run # NoneValue =>
        /\ stats_run.exc = NoneValue
        /\ Len(update_stats_calls) = 1
        /\ update_stats_calls[1].game_id = stats_run.reply.game_id
        /\ SeqRange(update_stats_calls[1].achievements) = ExpectedAchievements(stats_run.reply)

(***************************************************************************)
(* Properties of the game times.                                           *)
(***************************************************************************)
\* every own game dict has its appid and a parseable hours_forever
OwnGamesWellFormed ==
    \A k \in 1..Len(own_games) :
        /\ own_games[k].appid # MissingKey
        /\ own_games[k].hours_forever \in {MissingKey, "0.5", "1,000"}

OwnIds == {own_games[k].appid : k \in 1..Len(own_games)}

\* the records the first loop builds from the backend's data
ServerRecords == own_games_loop(own_games, <<>>).game_times

\* the local file lacks the path, an entry of a shared game or a key of an entry
LocalFileLacking ==
    \/ local_config = NoneValue
    \/ \E id \in SharedIds :
          \/ id \notin DOMAIN local_config.apps
          \/ local_config.apps[id] # ItemKeys

\* C24: when the local playtime file lacks keys or entries, _get_game_times_dict
\* does not fail: it returns, and the records built from the backend's data for
\* the own games are in what it returns
C24_LocalFileFailureNotFatal ==
    (game_times_run # NoneValue /\ OwnGamesWellFormed /\ LocalFileLacking) =>
        /\ game_times_run.exc = NoneValue
        /\ \A id \in OwnIds :
              /\ id \in DOMAIN game_times_run.game_times
              /\ game_times_run.game_times[id] = ServerRecords[id]

\* C30: _get_game_times_dict returns one record per own game id under that id,
\* a last_played of 86400 becomes None, and no record it returns has 86400 as
\* its last-played time
C30_OneRecordPerOwnGame ==
    (game_times_run # NoneValue /\ OwnGamesWellFormed) =>
        /\ game_times_run.exc = NoneValue
        /\ OwnIds \subseteq DOMAIN game_times_run.game_times
        /\ \A id \in DOMAIN game_times_run.game_times :
              /\ game_times_run.game_times[id].game_id = id
              /\ game_times_run.game_times[id].last_played_time # IntValue(NeverPlayed)
        /\ \A k \in 1..Len(own_games) :
              (/\ own_games[k].last_played = IntValue(NeverPlayed)
               /\ \A j \in (k + 1)..Len(own_games) : own_games[j].appid # own_games[k].appid)
                 => game_times_run.game_times[own_games[k].appid].last_played_time = NoneValue

(***************************************************************************)
(* Properties of the plugin's start.                                       *)
(***************************************************************************)
\* the cache SteamPlugin.__init__ creates
EmptyCache == [g \in Games |-> NoneValue]

\* the persisted value is the text of a cache dict
Deserializable ==
    /\ persistent_cache # NoneValue
    /\ persistent_cache.text = "json"
    /\ persistent_cache.value.shape = "cache"

\* C25: handshake_complete raises nothing; with nothing persisted, or with a
\* persisted value that cannot be deserialized, the achievements cache stays
\* the empty cache of the construction; a value that can be deserialized
\* replaces it with the persisted contents
C25_WarmStartBestEffort ==
    handshake_run # NoneValue =>
        /\ handshake_run.exc = NoneValue
        /\ IF Deserializable
           THEN achievements_cache = persistent_cache.value.entries
           ELSE achievements_cache = EmptyCache
        /\ (persistent_cache = NoneValue \/ Deserializable) <=> handshake_run.logged = <<>>

C25_Witness ==
    /\ handshake_run # NoneValue
    /\ persistent_cache # NoneValue
    /\ persistent_cache.text = "json"
    /\ persistent_cache.value.shape = "other"
    /\ handshake_run.logged # <<>>

(***************************************************************************)
(* Properties of the machine id.                                           *)
(***************************************************************************)
\* C26: an id is generated at most once per local machine cache; every client
\* uses the id its cache holds, so all clients built on one cache use the same
\* id; a construction on a cache that holds an id leaves the id alone and
\* generates nothing, one on an empty cache generates an id and stores it
C26_MachineIdGeneratedOnce ==
    /\ [](\A m \in MachineCaches : generated[m] <= 1)
    /\ [](\A k \in 1..Len(clients) :
             /\ clients[k].machine_id \in TokenBytes
             /\ clients[k].machine_id = machine_cache[clients[k].cache])
    /\ [][\A m \in MachineCaches :
             IF machine_cache[m] \in TokenBytes
             THEN machine_cache'[m] = machine_cache[m] /\ generated'[m] = generated[m]
             ELSE (clients' # clients /\ clients'[Len(clients')].cache = m) =>
                     /\ generated'[m] = generated[m] + 1
                     /\ machine_cache'[m] \in TokenBytes]_vars

C26_Witness ==
    /\ Len(clients) = 3
    /\ clients[1].cache = clients[3].cache
    /\ clients[2].cache # clients[1].cache
    /\ generated[clients[1].cache] = 1
    /\ generated[clients[2].cache] = 0

(***************************************************************************)
(* Properties of unsolicited replies and of the login reply.               *)
(***************************************************************************)
\* C27: a key reply routed while no key future is pending, and a login reply
\* routed while no login future is pending, each make their handler raise
C27_UnsolicitedReplyRaises ==
    [][(\/ HandlerRun("rsa") /\ rsa_future = 0
        \/ HandlerRun("login") /\ login_future = 0) => handler_exc' # NoExc]_vars

\* the login slot holds a future no reply has resolved
LoginPending == login_future # 0 /\ ~futures[login_future].done

\* C28: a login reply routed while a login future is pending resolves the
\* future with the reply's result; on OK with a polling descriptor of the
\* reply's client id, steam id, request id, poll interval and message and the
\* resolved challenge, and the cached steam id becomes the reply's; on any other
\* result with no descriptor, and the cached steam id stays what it was
C28_LoginReplyResolvesFuture ==
    [][(HandlerRun("login") /\ LoginPending) =>
          /\ handler_exc' = NoExc
          /\ futures'[login_future].done
          /\ futures'[login_future].result = inbox.result
          /\ IF inbox.result = "OK"
             THEN /\ futures'[login_future].data =
                        [type |-> "SteamPollingData",
                         client_id |-> inbox.client_id,
                         steamid |-> inbox.steamid,
                         request_id |-> inbox.request_id,
                         interval |-> inbox.interval,
                         auth_method |-> HighestPriority(Range(inbox.allowed_confirmations)),
                         extended_error_message |-> inbox.extended_error_message]
                  /\ steam_id' = inbox.steamid
             ELSE /\ futures'[login_future].data = NoneValue
                  /\ steam_id' = steam_id]_vars

C28_Witness ==
    /\ LoginSlotJustResolved
    /\ inbox.result = "InvalidPassword"
    /\ futures[login_future].data = NoneValue
    /\ steam_id = "s2"

(***************************************************************************)
(* Properties of the relationship handler's follow-up.                     *)
(***************************************************************************)
\* the users the last relationship message declares Friend
DeclaredFriend ==
    {u \in DOMAIN relationship_run.friends : relationship_run.friends[u] = "Friend"}

\* the operations of the follow-up, in order
FollowUpOps ==
    [k \in 1..Len(relationship_run.follow_up) |-> relationship_run.follow_up[k].op]

\* C29: after a snapshot the handler has reset the cache, sent persona state
\* Invisible, requested the friend statuses and requested the user infos of
\* exactly the snapshot's Friend users, in this order; after an incremental
\* update that declares a Friend it has requested the friend statuses and the
\* user infos of exactly the users declared Friend; after an incremental
\* update that declares none it has sent nothing
C29_FollowUpOrderedAndScoped ==
    relationship_run # NoneValue =>
        IF ~relationship_run.incremental
        THEN /\ FollowUpOps = <<"reset", "set_persona_state", "get_friends_statuses",
                                "get_user_infos">>
             /\ relationship_run.follow_up[1].users = DeclaredFriend
             /\ relationship_run.follow_up[2].state = "Invisible"
             /\ relationship_run.follow_up[4].users = DeclaredFriend
        ELSE IF DeclaredFriend # {}
        THEN /\ FollowUpOps = <<"get_friends_statuses", "get_user_infos">>
             /\ relationship_run.follow_up[2].users = DeclaredFriend
        ELSE relationship_run.follow_up = <<>>

(***************************************************************************)
(* Properties of the achievements cache over consecutive calls.            *)
(***************************************************************************)
\* the cache holds an entry for the game under the game time's fingerprint
CacheHit(game_id, game_time) ==
    /\ achievements_cache[game_id] # NoneValue
    /\ achievements_cache[game_id].fingerprint = CurrentFingerprint(game_time)

\* the calls this step suspends on their way to the backend
NewCalls == {c \in BagToSet(calls') : CopiesIn(c, calls') > CopiesIn(c, calls)}

\* C31: for a game with minutes played, a call goes to the backend exactly
\* when the cache has no entry under the game's current fingerprint; a call
\* answered without the backend returns the stored list and changes neither
\* the cache nor its flag; a fetched list is stored under the current
\* fingerprint and sets the flag, so that the cache then hits with this list
\* for the same fingerprint
C31_FetchIffMiss ==
    /\ [][BagCardinality(calls') > BagCardinality(calls) =>
             \A c \in NewCalls :
                /\ c.game_time.time_played # 0
                /\ ~CacheHit(c.game_id, c.game_time)
                /\ c.fingerprint = CurrentFingerprint(c.game_time)
                /\ UNCHANGED <<achievements_cache, achievements_cache_updated>>]_vars
    /\ [][(/\ CallReturns
           /\ ~returned'.fetched
           /\ returned'.game_time # NoneValue
           /\ returned'.game_time.time_played # 0) =>
             /\ CacheHit(returned'.game_id, returned'.game_time)
             /\ returned'.ret = Return(achievements_cache[returned'.game_id].achievements)
             /\ UNCHANGED <<achievements_cache, achievements_cache_updated>>]_vars
    /\ [][(CallReturns /\ returned'.fetched /\ returned'.ret.tag = "return") =>
             achievements_cache_updated']_vars
    /\ [](returned # NoneValue /\ returned.fetched /\ returned.ret.tag = "return" =>
             /\ CacheHit(returned.game_id, returned.game_time)
             /\ achievements_cache[returned.game_id].achievements = returned.ret.value)

\* a call answered from the cache right after the fetch that filled it
C31_Witness ==
    /\ returned # NoneValue
    /\ returned.consulted
    /\ ~returned.fetched
    /\ returned.ret = Return(List(<<>>))
    /\ achievements_cache_updated
    /\ calls = EmptyBag

(***************************************************************************)
(* Properties of the plugin's authentication gate.                         *)
(***************************************************************************)
\* the last _do_auth call was rejected at the profile lookup
ProfileRejected(run) ==
    \/ run.profile.exc = UnknownBackendResponse
    \/ run.profile_data # NoneValue /\ run.profile_data.exc = AccessDenied

\* C32: while the steam id is unset every gated operation has ended at once
\* with AuthenticationRequired and no backend request, none is under way, and
\* the own games and friends are what the construction left; a _do_auth call
\* rejected at the profile lookup raises InvalidCredentials, and a _do_auth
\* call that raises leaves the steam id as it was
C32_AuthenticationRequired ==
    /\ [](plugin_steam_id = None =>
             /\ plugin_op = NoneValue
             /\ own_games = <<>>
             /\ own_friends = <<>>
             /\ plugin_run # NoneValue =>
                   /\ plugin_run.ret = Raise(AuthenticationRequired)
                   /\ plugin_run.requests = <<>>)
    /\ [](auth_run # NoneValue /\ ProfileRejected(auth_run) =>
             auth_run.ret = Raise(InvalidCredentials))
    /\ [][(auth_run' # auth_run /\ auth_run'.ret.tag = "raise") =>
             plugin_steam_id' = plugin_steam_id]_vars

C32_Witness ==
    /\ plugin_steam_id = None
    /\ plugin_run # NoneValue
    /\ plugin_run.op = "get_owned_games"
    /\ auth_run # NoneValue
    /\ auth_run.profile_data # NoneValue
    /\ auth_run.ret = Raise(InvalidCredentials)


(***************************************************************************)
(* Properties of the translations handler.                                 *)
(***************************************************************************)
\* how often a client has requested the presence localization of an app id
RequestsFor(client, appid) ==
    Cardinality({k \in 1..Len(presence_requests[client]) :
                    presence_requests[client][k] = appid})

\* C33: no client requests the presence localization of a non-zero app id more
\* than once; a message without translations for a non-zero app id the cache
\* lacks stores the placeholder None and sends one request, and one for an app
\* id the cache has sends nothing and leaves the cache as it was
C33_RequestAtMostOnce ==
    /\ [](\A client \in Clients : \A appid \in AppIds \ {0} :
             RequestsFor(client, appid) <= 1)
    /\ [][(translation_msgs' # translation_msgs
           /\ translations_run'.appid # 0
           /\ ~Truthy(translations_run'.translations)) =>
          LET client == translations_run'.client
              appid == translations_run'.appid
          IN /\ \A other \in Clients \ {client} :
                   /\ translations_cache'[other] = translations_cache[other]
                   /\ presence_requests'[other] = presence_requests[other]
             /\ IF appid \in DOMAIN translations_cache[client]
                THEN /\ translations_cache'[client] = translations_cache[client]
                     /\ presence_requests'[client] = presence_requests[client]
                ELSE /\ translations_cache'[client] =
                           DictSet(translations_cache[client], appid, NoneValue)
                     /\ presence_requests'[client] =
                           Append(presence_requests[client], appid)]_vars

C33_Witness ==
    /\ translations_run # NoneValue
    /\ translations_run.appid = 1
    /\ ~Truthy(translations_run.translations)
    /\ translations_run.client = "steam_network"
    /\ 1 \in DOMAIN translations_run.before
    /\ translations_run.before[1] = NoneValue
    /\ RequestsFor("steam_network", 1) = 1
    /\ translation_msgs = MaxTranslationMsgs


(***************************************************************************)
(* Properties of retrieve_collections.                                     *)
(***************************************************************************)
\* C34: every retrieve_collections call appends exactly one import_collections
\* job to its client's list and nothing else does; a call returns a copy of
\* the store as it is at that moment, only when the event has been set since
\* the last return that came before the call, and its return leaves the event
\* cleared and the store empty
C34_RetrieveConsumesEvent ==
    /\ [](\A k \in 1..Len(collection_runs) :
             /\ collection_runs[k].sets > collection_runs[k].floor
             /\ collection_runs[k].ret = collection_runs[k].store)
    /\ [][/\ (retrievals' # retrievals =>
                \E client \in Clients :
                   job_list' = [job_list EXCEPT ![client] = Append(@, CollectionsJob)])
          /\ (retrievals' = retrievals => job_list' = job_list)
          /\ (collection_runs' # collection_runs =>
                LET run == collection_runs'[Len(collection_runs')]
                IN /\ collection_runs' = Append(collection_runs, run)
                   /\ run.ret = collections[run.client].collections
                   /\ ~collections'[run.client].event
                   /\ collections'[run.client].collections = EmptyCollections)]_vars

\* a call that waited returned, and a later call of the same client returned
\* after the event was set again
C34_Witness ==
    \E k \in 1..Len(collection_runs) : \E l \in 1..Len(collection_runs) :
       /\ k < l
       /\ collection_runs[k].client = collection_runs[l].client
       /\ collection_runs[k].woken
       /\ collection_runs[k].ret # EmptyCollections
       /\ collection_runs[l].floor = collection_runs[k].sets
       /\ collection_runs[l].sets > collection_runs[l].floor


\* C37: when only two calls were made, a call that was waiting together with
\* the other one when the event was set with a non-empty collection, and that
\* returned before the event was set again, returns that collection
C37_ConcurrentCallersSameData ==
    \A k \in 1..Len(collection_runs) :
       (/\ retrievals = 2
        /\ collection_runs[k].client = "steam_network"
        /\ collection_runs[k].woken
        /\ collection_runs[k].peers = 2
        /\ collection_runs[k].data # EmptyCollections
        /\ collection_runs[k].sets = collection_runs[k].wake_sets)
       => collection_runs[k].ret = collection_runs[k].data


\* C35: a log-off notification handled while no authenticate_password or
\* authenticate_token call has finished on result OK invokes no callback
C35_CallbackOnlyAfterLogin ==
    [][HandlerRun("log_off") /\ ~authenticated => lost_log' = lost_log]_vars


\* C36: no run of the key handler or of the login handler sets a result on a
\* future that is already done, which asyncio answers with InvalidStateError
C36_FutureResolvedOnce ==
    [][(HandlerRun("rsa") \/ HandlerRun("login")) =>
          handler_exc'.kind # "InvalidStateError"]_vars


(***************************************************************************)
(* Properties of the two translate_error functions.                        *)
(***************************************************************************)
\* C38: called on the same result code other than OK, the translate_error of
\* the steam_network client and that of the legacy client give the same error
\* kind, one of the translated kinds, carrying that result code
C38_TranslationsAgree ==
    LET new == translate_run["steam_network"]
        old == translate_run["protocol"]
    IN (new # NoneValue /\ old # NoneValue /\ new.result = old.result
        /\ new.result # "OK") =>
          /\ new.error.kind = old.error.kind
          /\ new.error.kind \in TranslatedKinds
          /\ new.error.result = new.result
          /\ old.error.result = new.result

C38_Witness ==
    /\ translate_run["steam_network"] # NoneValue
    /\ translate_run["protocol"] # NoneValue
    /\ translate_run["steam_network"].result = "AccountLogonDeniedVerifiedEmailRequired"
    /\ translate_run["protocol"].result = "AccountLogonDeniedVerifiedEmailRequired"
    /\ translate_run["protocol"].error.kind = "TemporaryBlocked"

====
